---------------------------- MODULE Spec2Model ----------------------------
(***************************************************************************)
(* A model of the Tinbergen data model (src/tbdatamodel.py): the key=value *)
(* codec (as_keyvalstr / parse_keyvals) and the Ethogram registry          *)
(* (add_behavior, add_code, parse_entry, get_prototype, validate_obs) and  *)
(* Ethogram.new_from_file, and of the observation templates of             *)
(* src/TBEthogram.py (Ethogram.Code, ObservationPrototype, hierarchy_set). *)
(*                                                                         *)
(* Program strings are sequences of one-character strings, so that the     *)
(* regular expressions, the escaping and str.split are modelled by what    *)
(* they do to the characters.  In the Ethogram part a "character" may be a *)
(* glyph: an indivisible chunk of non-whitespace text such as "state";     *)
(* the only whitespace glyph is " ".                                       *)
(***************************************************************************)
EXTENDS Integers, Sequences, FiniteSets, TLC

VARIABLES
    kvPc,       \* codec: "in" | "encoded" | "raw" | "rt_decoded" | "raw_decoded"
    kvMap,      \* codec: the mapping handed to as_keyvalstr
    kvText,     \* codec: the text handed to parse_keyvals
    kvOut,      \* codec: what parse_keyvals produced
    reRule,     \* codec: how re.findall continues after an empty match
    behaviors,  \* Ethogram.__behaviors
    codes,      \* Ethogram.__codes
    declared,   \* history: the args each registered code was declared with
    overwrote,  \* history: the last call replaced an entry already registered
    call,       \* the last Ethogram call and its arguments
    result,     \* what the last Ethogram call returned or raised
    tplPc,      \* template: "off" | "literal" | "ready"
    tplLiteral, \* template: the entry literal the caller built the Code from
    tplOrder,   \* template: the order in which the dicts iterate their keys
    tplNames,   \* template: the 'args' of the entry, Code.argNames
    tplData,    \* ObservationPrototype._data
    tplFreeVars, \* ObservationPrototype._freeVarPaths
    tplShares,  \* template: what the caller's documents share with _data
    tplCall,    \* template: the last operation and its arguments
    tplOut,     \* template: the document last returned, held by the caller
    tplOrig,    \* history: _data and _freeVarPaths as constructed
    tplPrev,    \* history: the make_obs call before the last, and its result
    ethName,    \* load: Ethogram.name
    ldLines,    \* load: the lines of the file
    ldPos,      \* load: the number of lines processed
    ldStatus,   \* load: "off" | "loading" | "returned" | the exception raised
    thPc,       \* threads: where each thread is in its call
    thCall,     \* threads: the call each thread is making
    thLocal,    \* threads: the local variables of each thread's call
    thResult,   \* threads: what each thread's call returned or raised
    thLoaded,   \* history: the registries of the Ethogram as loaded
    fsFiles,    \* files: the files of the project root, name -> text
    fsDir,      \* files: whether the directory of the file exists
    fsVideo,    \* files: the video file the observations are about
    fsObserver, \* files: the code of the observer
    fsSaved,    \* history: the texts written by the saves so far
    fsStatus,   \* files: "off" | "ready" | "returned" | the exception raised
    phPc,       \* paths: "off" | "in" | "set" | "got" | "set_got"
    phRoot,     \* history: the tree before the calls
    phTree,     \* paths: the tree the caller holds
    phPath,     \* paths: the path argument
    phValue,    \* paths: the value argument
    phSet,      \* paths: "ok" or the exception hierarchy_set raised
    phGet,      \* paths: what hierarchy_get returned or raised
    uiPc,       \* window: "off" | "open" | "closed"
    uiObserver, \* MainUI._cur_observer
    uiVideo,    \* MainUI._cur_video
    uiModified, \* MainUI.current_modified
    uiRows,     \* window: the observations in the rows of behavior_nav
    uiEditable, \* window: the 'editable' property of the entry cell
    uiFiles,    \* window: the observation files, name -> observations written
    uiEdited,   \* history: the video and observer current at the last edit
    uiLast      \* history: the last handler, the state it began in, its save

vars == <<kvPc, kvMap, kvText, kvOut, reRule, behaviors, codes, declared,
          overwrote, call, result, tplPc, tplLiteral, tplOrder, tplNames, tplData,
          tplFreeVars, tplShares, tplCall, tplOut, tplOrig, tplPrev, ethName,
          ldLines, ldPos, ldStatus, thPc, thCall, thLocal, thResult,
          thLoaded, fsFiles, fsDir, fsVideo, fsObserver, fsSaved, fsStatus,
          phPc, phRoot, phTree, phPath, phValue, phSet, phGet, uiPc,
          uiObserver, uiVideo, uiModified, uiRows, uiEditable, uiFiles,
          uiEdited, uiLast>>
kvVars == <<kvPc, kvMap, kvText, kvOut, reRule>>
ethVars == <<behaviors, codes, declared, overwrote, call, result>>
tplVars == <<tplPc, tplLiteral, tplOrder, tplNames, tplData, tplFreeVars, tplShares,
             tplCall, tplOut, tplOrig, tplPrev>>
ldVars == <<ethName, ldLines, ldPos, ldStatus>>
thVars == <<thPc, thCall, thLocal, thResult, thLoaded>>
fsVars == <<fsFiles, fsDir, fsVideo, fsObserver, fsSaved, fsStatus>>
phVars == <<phPc, phRoot, phTree, phPath, phValue, phSet, phGet>>
uiVars == <<uiPc, uiObserver, uiVideo, uiModified, uiRows, uiEditable, uiFiles,
            uiEdited, uiLast>>
auxVars == <<thVars, fsVars, phVars, uiVars>>

(***************************************************************************)
(* Bounds of the model.                                                    *)
(***************************************************************************)
MaxKeyLen == 2      \* characters in a key of the encoded mapping
MaxValLen == 2      \* characters in a scalar value
MaxElemLen == 1     \* characters in an element of a tuple value
MaxTupleLen == 2    \* elements in a tuple value
MaxTextLen == 5     \* characters in a raw text handed to parse_keyvals
MaxEntryLen == 3    \* glyphs in an entry string typed by the observer
MaxListLen == 2     \* elements in a list of a template document
MaxArgValues == 3   \* positional values handed to Code.make_obs
MaxLines == 3       \* lines in an ethogram file

(***************************************************************************)
(* Generic helpers.                                                        *)
(***************************************************************************)
Range(f) == {f[i] : i \in DOMAIN f}

StrsUpTo(S, n) == UNION {[1..k -> S] : k \in 0..n}

StrsFromTo(S, m, n) == UNION {[1..k -> S] : k \in m..n}

\* The enumerations of a finite set: the orders a dict or a frozenset may
\* be iterated in.
Orders(S) == {q \in [1..Cardinality(S) -> S] : Range(q) = S}

EmptyDict == [k \in {} |-> <<>>]

\* A Python value of the codec: a str or a tuple of str.
Str(s) == [t |-> "str", v |-> s]

Tup(q) == [t |-> "tuple", v |-> q]

\* \s of the re module, over the model's characters.
IsSpace(c) == c = " "

(***************************************************************************)
(* as_keyvalstr                                                            *)
(***************************************************************************)
\* re.sub(r'([<special>])', r'\\\1', s): a backslash before every special
\* character.
RECURSIVE re_escape(_, _)
re_escape(s, special) ==
    IF s = <<>> THEN <<>>
    ELSE (IF s[1] \in special THEN <<"\\", s[1]>> ELSE <<s[1]>>)
             \o re_escape(Tail(s), special)

KeySpecials == {" ", "\\", "="}

\* A value escape set from which the comma is missing.
ValSpecials_without_comma == {" ", "\\"}

ValSpecials == {" ", "\\", ","}

RECURSIVE str_join(_, _)
str_join(sep, list) ==
    IF list = <<>> THEN <<>>
    ELSE IF Len(list) = 1 THEN list[1]
    ELSE list[1] \o sep \o str_join(sep, Tail(list))

\* order is the order in which dictobj.items() yields the keys.
as_keyvalstr(dictobj, order) ==
    LET keystr(key) == re_escape(key, KeySpecials)
        valstr(val) ==
            IF val.t = "tuple"
            THEN str_join(<<",">>,
                     [i \in 1..Len(val.v) |-> re_escape(val.v[i], ValSpecials)])
            ELSE re_escape(val.v, ValSpecials)
        keyvals == [i \in 1..Len(order) |->
                       keystr(order[i]) \o <<"=">> \o valstr(dictobj[order[i]])]
    IN str_join(<<" ">>, keyvals)

(***************************************************************************)
(* parse_keyvals                                                           *)
(***************************************************************************)
\* strip_escapes = re.sub(r'\\(.)', r'\1', s)
RECURSIVE strip_escapes(_)
strip_escapes(s) ==
    IF s = <<>> THEN <<>>
    ELSE IF s[1] = "\\" /\ Len(s) >= 2
         THEN <<s[2]>> \o strip_escapes(SubSeq(s, 3, Len(s)))
         ELSE <<s[1]>> \o strip_escapes(Tail(s))

\* What must follow a word: '=' after the key group, nothing after the
\* value group.  The matcher backtracks into the word until this holds.
WordCont(s, e, needEq) == ~needEq \/ (e <= Len(s) /\ s[e] = "=")

\* "(?:\\.|[^"])*" after the opening quote: the position after the closing
\* quote of the first path, in the matcher's priority order, that the
\* continuation accepts; 0 when there is none.
RECURSIVE QuotedRest(_, _, _)
QuotedRest(s, p, needEq) ==
    IF p > Len(s) THEN 0
    ELSE LET esc   == IF s[p] = "\\" /\ p + 1 <= Len(s)
                      THEN QuotedRest(s, p + 2, needEq) ELSE 0
             plain == IF s[p] # "\""
                      THEN QuotedRest(s, p + 1, needEq) ELSE 0
             close == IF s[p] = "\"" /\ WordCont(s, p + 1, needEq)
                      THEN p + 1 ELSE 0
         IN IF esc # 0 THEN esc ELSE IF plain # 0 THEN plain ELSE close

\* (?:\\.|[^\s=])+ : needItem is TRUE until one item has been consumed.
RECURSIVE UnquotedRest(_, _, _, _)
UnquotedRest(s, p, needEq, needItem) ==
    LET esc   == IF p + 1 <= Len(s) /\ s[p] = "\\"
                 THEN UnquotedRest(s, p + 2, needEq, FALSE) ELSE 0
        plain == IF p <= Len(s) /\ ~IsSpace(s[p]) /\ s[p] # "="
                 THEN UnquotedRest(s, p + 1, needEq, FALSE) ELSE 0
        stop  == IF ~needItem /\ WordCont(s, p, needEq) THEN p ELSE 0
    IN IF esc # 0 THEN esc ELSE IF plain # 0 THEN plain ELSE stop

\* word_ex: the quoted alternative first, then the unquoted one.
WordEnd(s, p, needEq) ==
    LET q == IF p <= Len(s) /\ s[p] = "\""
             THEN QuotedRest(s, p + 1, needEq) ELSE 0
    IN IF q # 0 THEN q ELSE UnquotedRest(s, p, needEq, TRUE)

\* keyval_rex anchored at position p: (?P<key>word)=(?P<val>word)?
KeyvalMatchAt(s, p) ==
    LET ke == WordEnd(s, p, TRUE)
        ve == IF ke = 0 THEN 0 ELSE WordEnd(s, ke + 1, FALSE)
    IN [found  |-> ke # 0,
        start  |-> p,
        keyEnd |-> ke,
        hasVal |-> ve # 0,
        end    |-> IF ve # 0 THEN ve ELSE ke + 1]

\* re.finditer(keyval_rex, keyvalstr): leftmost matches, each search
\* resuming where the previous match ended.
RECURSIVE keyval_finditer(_, _)
keyval_finditer(s, pos) ==
    IF pos > Len(s) THEN <<>>
    ELSE LET m == KeyvalMatchAt(s, pos)
         IN IF m.found THEN <<m>> \o keyval_finditer(s, m.end)
            ELSE keyval_finditer(s, pos + 1)

\* The greedy group ((?:\\.|[^,])*) of the split expression.
RECURSIVE ElemEnd(_, _)
ElemEnd(v, p) ==
    IF p + 1 <= Len(v) /\ v[p] = "\\" THEN ElemEnd(v, p + 2)
    ELSE IF p <= Len(v) /\ v[p] # "," THEN ElemEnd(v, p + 1)
    ELSE p

\* re.findall(r'(?:\A|,)((?:\\.|[^,])*)', val).  The only empty match is
\* \A before a leading comma; after it the search resumes one character
\* on (rule "skip", the re module before Python 3.7) or at the same place
\* looking for a non-empty match (rule "retry", Python 3.7 and later).
RECURSIVE split_findall(_, _, _, _)
split_findall(v, i, mustAdvance, rule) ==
    IF i > Len(v) THEN <<>>
    ELSE IF i = 1 /\ ~mustAdvance
    THEN LET e == ElemEnd(v, 1)
         IN IF e = 1
            THEN << <<>> >> \o (IF rule = "retry"
                                THEN split_findall(v, 1, TRUE, rule)
                                ELSE split_findall(v, 2, FALSE, rule))
            ELSE <<SubSeq(v, 1, e - 1)>> \o split_findall(v, e, FALSE, rule)
    ELSE IF v[i] = ","
    THEN LET e == ElemEnd(v, i + 1)
         IN <<SubSeq(v, i + 1, e - 1)>> \o split_findall(v, e, FALSE, rule)
    ELSE split_findall(v, i + 1, FALSE, rule)

\* s[1:-1]
Slice1m1(s) == SubSeq(s, 2, Len(s) - 1)

\* The three branches on a value token.
DecodeVal(val, rule) ==
    IF val[1] = "\""
    THEN Str(strip_escapes(Slice1m1(val)))
    ELSE IF "," \in Range(val)
    THEN LET elems == split_findall(val, 1, FALSE, rule)
         IN Tup([i \in 1..Len(elems) |-> strip_escapes(elems[i])])
    ELSE Str(strip_escapes(val))

DecodeKey(key) ==
    strip_escapes(IF key[1] = "\"" THEN Slice1m1(key) ELSE key)

\* newdict[key] = val for each item in turn: the last item of a key wins.
DictOfItems(items) ==
    LET keys == {items[i].key : i \in 1..Len(items)}
        last(k) == CHOOSE i \in 1..Len(items) :
                      /\ items[i].key = k
                      /\ \A j \in (i + 1)..Len(items) : items[j].key # k
    IN [k \in keys |-> items[last(k)].val]

\* parse_keyvals: val[0] on a match whose val group did not take part
\* (val is None) raises TypeError and no mapping is returned.
parse_keyvals(keyvalstr, rule) ==
    LET ms == keyval_finditer(keyvalstr, 1)
        items == [i \in 1..Len(ms) |->
                   [key |-> DecodeKey(SubSeq(keyvalstr, ms[i].start,
                                             ms[i].keyEnd - 1)),
                    tok |-> SubSeq(keyvalstr, ms[i].keyEnd + 1,
                                   ms[i].end - 1),
                    val |-> DecodeVal(SubSeq(keyvalstr, ms[i].keyEnd + 1,
                                             ms[i].end - 1), rule),
                    start |-> ms[i].start,
                    end |-> ms[i].end]]
    IN IF \E i \in 1..Len(ms) : ~ms[i].hasVal
       THEN [status |-> "TypeError", items |-> <<>>, map |-> EmptyDict]
       ELSE [status |-> "ok", items |-> items, map |-> DictOfItems(items)]

(***************************************************************************)
(* The codec as a state machine: a mapping is encoded and the text decoded *)
(* again, or a raw text is decoded.                                        *)
(***************************************************************************)
Chars == {"a", " ", ",", "=", "\"", "\\"}

KeyStrs == StrsFromTo(Chars, 1, MaxKeyLen)

ScalarVals == {Str(s) : s \in StrsUpTo(Chars, MaxValLen)}

TupleVals ==
    {Tup(q) : q \in StrsFromTo(StrsUpTo(Chars, MaxElemLen), 1, MaxTupleLen)}

OneEntryMaps ==
    {(k :> v) : k \in KeyStrs, v \in ScalarVals \cup TupleVals}

TwoEntryMaps ==
    {(k1 :> Str(s1)) @@ (k2 :> Str(s2)) :
        k1 \in {<<"a">>}, k2 \in {<<",">>, <<"\"">>},
        s1 \in StrsUpTo(Chars, 1), s2 \in StrsUpTo(Chars, 1)}

KVMaps == OneEntryMaps \cup TwoEntryMaps

RawTexts == StrsUpTo(Chars, MaxTextLen)

NoOut == [status |-> "none", items |-> <<>>, map |-> EmptyDict]

NoCall == [op |-> "none"]

NoResult == [status |-> "none"]

\* The empty dict as a document: the caller holds no document yet.
NoDoc == [t |-> "map", m |-> EmptyDict]

\* No template has been built.
TplOff ==
    /\ tplPc = "off"
    /\ tplLiteral = NoDoc
    /\ tplOrder = <<>>
    /\ tplNames = <<>>
    /\ tplData = NoDoc
    /\ tplFreeVars = EmptyDict
    /\ tplShares = [literal |-> "none", out |-> "none"]
    /\ tplCall = NoCall
    /\ tplOut = NoDoc
    /\ tplOrig = EmptyDict
    /\ tplPrev = NoCall

\* No thread is reading the Ethogram.
ThOff ==
    /\ thPc = <<>>
    /\ thCall = <<>>
    /\ thLocal = <<>>
    /\ thResult = <<>>
    /\ thLoaded = EmptyDict

\* No observation file is being saved.
FsOff ==
    /\ fsFiles = EmptyDict
    /\ fsDir = FALSE
    /\ fsVideo = <<>>
    /\ fsObserver = <<>>
    /\ fsSaved = <<>>
    /\ fsStatus = "off"

\* No path call is being made.
PhOff ==
    /\ phPc = "off"
    /\ phRoot = NoDoc
    /\ phTree = NoDoc
    /\ phPath = <<>>
    /\ phValue = NoDoc
    /\ phSet = "none"
    /\ phGet = [status |-> "none"]

\* None
PyNone == [t |-> "None"]

\* No handler of the main window has run.
UiIdle ==
    [op |-> "none", video |-> PyNone, observer |-> PyNone, modified |-> FALSE,
     edited |-> <<>>, saved |-> NoCall, raised |-> "none"]

\* No main window is open.
UiOff ==
    /\ uiPc = "off"
    /\ uiObserver = PyNone
    /\ uiVideo = PyNone
    /\ uiModified = FALSE
    /\ uiRows = <<>>
    /\ uiEditable = FALSE
    /\ uiFiles = EmptyDict
    /\ uiEdited = <<>>
    /\ uiLast = UiIdle

AuxOff == ThOff /\ FsOff /\ PhOff /\ UiOff

\* No file is being loaded.
LoadOff ==
    /\ ethName = <<>>
    /\ ldLines = <<>>
    /\ ldPos = 0
    /\ ldStatus = "off"

EthInit ==
    /\ behaviors = EmptyDict
    /\ codes = EmptyDict
    /\ declared = EmptyDict
    /\ overwrote = FALSE
    /\ call = NoCall
    /\ result = NoResult

CodecInit ==
    /\ reRule \in {"skip", "retry"}
    /\ \/ kvPc = "in" /\ kvMap \in KVMaps /\ kvText = <<>>
       \/ kvPc = "raw" /\ kvMap = EmptyDict /\ kvText \in RawTexts
    /\ kvOut = NoOut
    /\ EthInit
    /\ AuxOff
    /\ TplOff
    /\ LoadOff

Encode ==
    /\ kvPc = "in"
    /\ \E order \in Orders(DOMAIN kvMap) :
           kvText' = as_keyvalstr(kvMap, order)
    /\ kvPc' = "encoded"
    /\ UNCHANGED <<kvMap, kvOut, reRule, ethVars, tplVars, ldVars, auxVars>>

Decode ==
    /\ kvPc \in {"encoded", "raw"}
    /\ kvOut' = parse_keyvals(kvText, reRule)
    /\ kvPc' = IF kvPc = "encoded" THEN "rt_decoded" ELSE "raw_decoded"
    /\ UNCHANGED <<kvMap, kvText, reRule, ethVars, tplVars, ldVars, auxVars>>

CodecNext == Encode \/ Decode

CodecSpec == CodecInit /\ [][CodecNext]_vars

(***************************************************************************)
(* Ethogram                                                                *)
(*                                                                         *)
(* A dict is a function from its keys (TLA+ strings) to its values.  The   *)
(* values of an observation are program strings.  A behavior is the dict   *)
(* {name, kind[, values]}, a code the dict {symbol, name[, args]} updated  *)
(* with the extra keyword arguments, as the source stores them.            *)
(***************************************************************************)
\* str(None)
StrOfNone == <<"None">>

\* A kind list from which 'variable' is missing.
observation_kinds_without_variable ==
    {<<"moment">>, <<"state">>, <<"binary">>}

observation_kinds == {<<"moment">>, <<"state">>, <<"binary">>, <<"variable">>}

binary_values == Tup(<< <<"True">>, <<"False">> >>)

Returned(v) == [status |-> "returned", value |-> v]

Raised(e) == [status |-> "raised", exc |-> e]

\* d[k] = v
DictSet(d, k, v) == [x \in DOMAIN d \cup {k} |-> IF x = k THEN v ELSE d[x]]

\* d.update(e)
DictUpdate(d, e) ==
    [x \in DOMAIN d \cup DOMAIN e |-> IF x \in DOMAIN e THEN e[x] ELSE d[x]]

\* dict(zip(names, vals)): pairs up to the shorter length, a later pair of
\* the same name replacing an earlier one.
ZipDict(names, vals) ==
    LET n == IF Len(names) < Len(vals) THEN Len(names) ELSE Len(vals)
        last(k) == CHOOSE i \in 1..n :
                      names[i] = k /\ \A j \in (i + 1)..n : names[j] # k
    IN [k \in {names[i] : i \in 1..n} |-> vals[last(k)]]

\* NameSet.__new__: a str becomes the one-element set, a list or tuple the
\* set of its elements, anything else (None) the set of its string form.
NameSet(initial) ==
    IF initial.t = "str" THEN {initial.v}
    ELSE IF initial.t = "tuple" THEN Range(initial.v)
    ELSE {StrOfNone}

\* A variant that looks for whitespace at the start of the symbol only.
symbol_has_whitespace_leading(symbol) == symbol # <<>> /\ IsSpace(symbol[1])

\* re.search(r'\s', symbol)
symbol_has_whitespace(symbol) == \E i \in 1..Len(symbol) : IsSpace(symbol[i])

\* add_behavior: the exception its kind check raises, or "ok".
add_behavior_check(kind) ==
    IF kind \notin observation_kinds THEN "ValueError" ELSE "ok"

\* A variant that builds the value set of a binary behavior from the values
\* argument, as for a state behavior.
new_behavior_binary_from_values(kind, name, values) ==
    LET base == [name |-> name, kind |-> kind]
    IN IF kind \in {<<"state">>, <<"binary">>}
       THEN DictSet(base, "values", NameSet(values))
       ELSE base

\* add_behavior: the dict it builds for a behavior of a recognized kind.
new_behavior(kind, name, values) ==
    LET base == [name |-> name, kind |-> kind]
    IN IF kind = <<"state">>
       THEN DictSet(base, "values", NameSet(values))
       ELSE IF kind = <<"binary">>
       THEN DictSet(base, "values", NameSet(binary_values))
       ELSE base

\* A variant without the check that the behavior is registered.
add_code_check_symbol_only(symbol, name) ==
    IF symbol_has_whitespace(symbol) THEN "ValueError" ELSE "ok"

\* add_code: the exception its checks raise, or "ok".
add_code_check(symbol, name) ==
    IF symbol_has_whitespace(symbol) THEN "ValueError"
    ELSE IF name \notin DOMAIN behaviors THEN "CodeError"
    ELSE "ok"

\* add_code: the dict it builds; argOrder is the order in which the NameSet
\* built from args is iterated.
new_code(symbol, name, args, kargs, argOrder) ==
    LET base == [symbol |-> symbol, name |-> name]
        withArgs == IF args # PyNone
                    THEN DictSet(base, "args", argOrder) ELSE base
    IN DictUpdate(withArgs, kargs)

\* A variant that keeps the entry already registered under the key.
register_keep_first(registry, key, entry) ==
    IF key \in DOMAIN registry THEN registry ELSE DictSet(registry, key, entry)

\* self.__behaviors[name] = ..., self.__codes[symbol] = ...
register(registry, key, entry) == DictSet(registry, key, entry)

\* str.split(): the maximal runs of non-whitespace characters.
RECURSIVE str_split(_)
str_split(s) ==
    IF s = <<>> THEN <<>>
    ELSE IF IsSpace(s[1]) THEN str_split(Tail(s))
    ELSE LET stops == {i \in 1..Len(s) : IsSpace(s[i])}
             n == IF stops = {} THEN Len(s)
                  ELSE (CHOOSE i \in stops : \A j \in stops : i <= j) - 1
         IN <<SubSeq(s, 1, n)>> \o str_split(SubSeq(s, n + 1, Len(s)))

\* dictkeys_setop with b a set of keys (the only way the module calls it).
dictkeys_setop(op, a, b) ==
    [key \in (IF op = "and" THEN DOMAIN a \cap b ELSE DOMAIN a \ b) |-> a[key]]

keys_keep(dictobj, keep) == dictkeys_setop("and", dictobj, keep)

keys_lose(dictobj, lose) == dictkeys_setop("sub", dictobj, lose)

\* A variant that updates with the inputs from the first to the last, so
\* that the rightmost input's value survives.
RECURSIVE join_dicts_rightmost(_)
join_dicts_rightmost(pargs) ==
    IF pargs = <<>> THEN EmptyDict
    ELSE DictUpdate(pargs[1], join_dicts_rightmost(Tail(pargs)))

\* join_dicts(*pargs): new_dict = {}; update with the inputs from the last
\* to the first, so the leftmost input's value survives.
RECURSIVE join_dicts(_)
join_dicts(pargs) ==
    IF pargs = <<>> THEN EmptyDict
    ELSE DictUpdate(join_dicts(Tail(pargs)), pargs[1])

\* Ethogram.__validate_obs: what it raises, or "ok".
validate_obs_private(obs) ==
    IF obs.name \notin DOMAIN behaviors THEN "KeyError"
    ELSE LET behavior == behaviors[obs.name]
             obs_kind == obs.kind
         IN IF obs_kind # behavior.kind THEN "ValueError"
            ELSE IF /\ obs_kind \in {<<"state">>, <<"binary">>}
                    /\ "value" \in DOMAIN obs
                    /\ obs.value \notin (IF "values" \in DOMAIN behavior
                                         THEN behavior.values ELSE {})
            THEN "ValueError"
            ELSE "ok"

\* Ethogram.get_prototype(entry): the value returned or the exception.
get_prototype_result(entry) ==
    LET entry_items == str_split(entry)
    IN IF entry_items = <<>> THEN Raised("IndexError")
       ELSE LET symbol == entry_items[1]
                args == Tail(entry_items)
            IN IF symbol \notin DOMAIN codes THEN Raised("KeyError")
               ELSE LET code == codes[symbol]
                    IN IF code.name \notin DOMAIN behaviors
                       THEN Raised("KeyError")
                       ELSE LET behavior == behaviors[code.name]
                                proto0 == [entry |-> entry,
                                           name |-> behavior.name,
                                           kind |-> behavior.kind]
                                proto1 == DictUpdate(proto0,
                                    keys_lose(code, {"symbol", "name", "args"}))
                                new_proto ==
                                    IF "args" \in DOMAIN code
                                    THEN DictUpdate(proto1,
                                                    ZipDict(code.args, args))
                                    ELSE proto1
                                check == validate_obs_private(new_proto)
                            IN IF check # "ok" THEN Raised(check)
                               ELSE Returned(new_proto)

\* Ethogram.parse_entry(entry): the value returned or the exception.
parse_entry_result(entry) ==
    LET obs_entry == [entry |-> entry]
    IN IF Len(entry) = 0 THEN Returned(obs_entry)
       ELSE LET entry_items == str_split(entry)
            IN IF entry_items = <<>> THEN Raised("IndexError")
               ELSE LET symbol == entry_items[1]
                        entry_args == Tail(entry_items)
                        code == IF symbol \in DOMAIN codes
                                THEN codes[symbol] ELSE EmptyDict
                        behavior ==
                            IF "name" \in DOMAIN code
                               /\ code.name \in DOMAIN behaviors
                            THEN behaviors[code.name] ELSE EmptyDict
                        obs_behavior == keys_keep(behavior, {"name", "kind"})
                        obs_code ==
                            keys_lose(code, {"symbol", "name", "args"})
                        obs_args ==
                            ZipDict(IF "args" \in DOMAIN code
                                    THEN code.args ELSE <<>>, entry_args)
                    IN Returned(join_dicts(
                           <<obs_entry, obs_behavior, obs_code, obs_args>>))

(***************************************************************************)
(* The Ethogram as a state machine.  A call runs to completion and leaves  *)
(* its outcome in result; the caller takes the outcome (Return) before the *)
(* next call is made.                                                      *)
(***************************************************************************)
BehaviorNames == {<<"b1">>, <<"b2">>}

KindInputs ==
    {<<"moment">>, <<"state">>, <<"binary">>, <<"variable">>, <<"bogus">>}

ValuesInputs ==
    {PyNone, Str(<<"sit">>), Tup(<< <<"sit">>, <<"stand">> >>), Tup(<<>>)}

SymbolInputs == {<<"s">>, <<"s", " ">>}

ArgsInputs ==
    {PyNone, Str("value"), Tup(<<"value", "kind">>), Tup(<<"value", "value">>)}

KargsInputs ==
    {EmptyDict, [value |-> <<"sit">>],
     [kind |-> <<"binary">>, entry |-> <<"sit">>]}

EntryGlyphs == {"s", " ", "sit"}

EntryInputs == StrsUpTo(EntryGlyphs, MaxEntryLen)

ObsInputs ==
    {keys_lose([name |-> n, kind |-> k, value |-> v], lose) :
        n \in {<<"b1">>, <<"zz">>}, k \in {<<"state">>, <<"moment">>},
        v \in {<<"sit">>, <<"run">>},
        lose \in {{}, {"value"}, {"kind"}, {"name"}}}

Idle == call = NoCall

add_behavior(kind, name, values) ==
    /\ Idle
    /\ call' = [op |-> "add_behavior", kind |-> kind, name |-> name,
                values |-> values]
    /\ IF add_behavior_check(kind) # "ok"
       THEN /\ result' = Raised(add_behavior_check(kind))
            /\ overwrote' = FALSE
            /\ UNCHANGED <<behaviors, codes, declared>>
       ELSE /\ behaviors' =
                  register(behaviors, name, new_behavior(kind, name, values))
            /\ overwrote' = (name \in DOMAIN behaviors)
            /\ result' = Returned(PyNone)
            /\ UNCHANGED <<codes, declared>>
    /\ UNCHANGED <<kvVars, tplVars, ldVars, auxVars>>

\* argOrder is the order in which the NameSet built from args is iterated.
add_code(symbol, name, args, kargs, argOrder) ==
    /\ Idle
    /\ call' = [op |-> "add_code", symbol |-> symbol, name |-> name,
                args |-> args, kargs |-> kargs]
    /\ IF add_code_check(symbol, name) # "ok"
       THEN /\ result' = Raised(add_code_check(symbol, name))
            /\ overwrote' = FALSE
            /\ UNCHANGED <<behaviors, codes, declared>>
       ELSE /\ codes' = register(codes, symbol,
                             new_code(symbol, name, args, kargs, argOrder))
            /\ declared' = DictSet(declared, symbol, args)
            /\ overwrote' = (symbol \in DOMAIN codes)
            /\ result' = Returned(PyNone)
            /\ UNCHANGED behaviors
    /\ UNCHANGED <<kvVars, tplVars, ldVars, auxVars>>

get_prototype(entry) ==
    /\ Idle
    /\ call' = [op |-> "get_prototype", entry |-> entry]
    /\ result' = get_prototype_result(entry)
    /\ UNCHANGED <<behaviors, codes, declared, overwrote, kvVars, tplVars,
                   ldVars, auxVars>>

parse_entry(entry) ==
    /\ Idle
    /\ call' = [op |-> "parse_entry", entry |-> entry]
    /\ result' = parse_entry_result(entry)
    /\ UNCHANGED <<behaviors, codes, declared, overwrote, kvVars, tplVars,
                   ldVars, auxVars>>

\* def validate_obs(obs): the method is declared without self, so binding
\* it to an Ethogram and calling it with an observation raises TypeError
\* before the body runs.
validate_obs(obs) ==
    /\ Idle
    /\ call' = [op |-> "validate_obs", obs |-> obs]
    /\ result' = Raised("TypeError")
    /\ UNCHANGED <<behaviors, codes, declared, overwrote, kvVars, tplVars,
                   ldVars, auxVars>>

Return ==
    /\ ~Idle
    /\ call' = NoCall
    /\ result' = NoResult
    /\ overwrote' = FALSE
    /\ UNCHANGED <<behaviors, codes, declared, kvVars, tplVars, ldVars, auxVars>>

Init ==
    /\ kvPc = "off"
    /\ kvMap = EmptyDict
    /\ kvText = <<>>
    /\ kvOut = NoOut
    /\ reRule = "retry"
    /\ EthInit
    /\ AuxOff
    /\ TplOff
    /\ LoadOff

Next ==
    \/ \E kind \in KindInputs, name \in BehaviorNames, values \in ValuesInputs :
           add_behavior(kind, name, values)
    \/ \E symbol \in SymbolInputs, name \in BehaviorNames, args \in ArgsInputs,
          kargs \in KargsInputs :
           \E argOrder \in (IF args = PyNone THEN {<<>>}
                            ELSE Orders(NameSet(args))) :
               add_code(symbol, name, args, kargs, argOrder)
    \/ \E entry \in EntryInputs : get_prototype(entry)
    \/ \E entry \in EntryInputs : parse_entry(entry)
    \/ \E obs \in ObsInputs : validate_obs(obs)
    \/ Return

Spec == Init /\ [][Next]_vars

(***************************************************************************)
(* The registry alone: the two add calls with two behavior names and two   *)
(* symbols free of whitespace, so that an entry is registered beside       *)
(* another one and registered again.                                       *)
(***************************************************************************)
RegValuesInputs == {PyNone, Tup(<< <<"sit">>, <<"stand">> >>)}

RegSymbolInputs == {<<"s">>, <<>>, <<"s", " ">>}

RegArgsInputs == {PyNone, Tup(<<"value", "kind">>)}

RegKargsInputs == {EmptyDict, [value |-> <<"sit">>]}

RegistryNext ==
    \/ \E kind \in KindInputs, name \in BehaviorNames,
          values \in RegValuesInputs :
           add_behavior(kind, name, values)
    \/ \E symbol \in RegSymbolInputs, name \in BehaviorNames,
          args \in RegArgsInputs, kargs \in RegKargsInputs :
           \E argOrder \in (IF args = PyNone THEN {<<>>}
                            ELSE Orders(NameSet(args))) :
               add_code(symbol, name, args, kargs, argOrder)
    \/ Return

RegistrySpec == Init /\ [][RegistryNext]_vars

(***************************************************************************)
(* Observation templates (src/TBEthogram.py)                               *)
(*                                                                         *)
(* A document is a tree: a str, another scalar (an int), a list of         *)
(* documents or a dict from keys to documents.  A key of a dict is         *)
(* Key(s) for the string s or Idx(i) for the integer i, and a path is a    *)
(* sequence of such keys, Idx(i) being also the index i of a list.         *)
(* Strings are sequences of characters.                                    *)
(***************************************************************************)
Num(i) == [t |-> "int", i |-> i]

List(q) == [t |-> "list", l |-> q]

Map(f) == [t |-> "map", m |-> f]

Key(s) == [key |-> s]

Idx(i) == [idx |-> i]

Ok(v) == [status |-> "ok", value |-> v]

Err(e) == [status |-> e]

IsIdx(key) == "idx" \in DOMAIN key

\* The position in a sequence of n elements that the Python index i names
\* (a negative index counts from the end), 0 when it is out of range.
SeqIndex(n, i) ==
    IF 0 <= i /\ i < n THEN i + 1
    ELSE IF 0 - n <= i /\ i < 0 THEN n + i + 1
    ELSE 0

\* A variant in which a mapping gives an empty mapping for a key it does
\* not have, as a defaultdict does.
get_item_default(item, key) ==
    IF item.t = "map"
    THEN IF key \in DOMAIN item.m THEN Ok(item.m[key]) ELSE Ok(Map(EmptyDict))
    ELSE IF item.t = "list"
    THEN IF ~IsIdx(key) THEN Err("TypeError")
         ELSE IF SeqIndex(Len(item.l), key.idx) = 0 THEN Err("IndexError")
         ELSE Ok(item.l[SeqIndex(Len(item.l), key.idx)])
    ELSE IF item.t = "str"
    THEN IF ~IsIdx(key) THEN Err("TypeError")
         ELSE IF SeqIndex(Len(item.v), key.idx) = 0 THEN Err("IndexError")
         ELSE Ok(Str(<<item.v[SeqIndex(Len(item.v), key.idx)]>>))
    ELSE Err("TypeError")

\* item[key]
get_item(item, key) ==
    IF item.t = "map"
    THEN IF key \in DOMAIN item.m THEN Ok(item.m[key]) ELSE Err("KeyError")
    ELSE IF item.t = "list"
    THEN IF ~IsIdx(key) THEN Err("TypeError")
         ELSE IF SeqIndex(Len(item.l), key.idx) = 0 THEN Err("IndexError")
         ELSE Ok(item.l[SeqIndex(Len(item.l), key.idx)])
    ELSE IF item.t = "str"
    THEN IF ~IsIdx(key) THEN Err("TypeError")
         ELSE IF SeqIndex(Len(item.v), key.idx) = 0 THEN Err("IndexError")
         ELSE Ok(Str(<<item.v[SeqIndex(Len(item.v), key.idx)]>>))
    ELSE Err("TypeError")

\* A variant in which the assignment is lost.
set_item_lost(item, key, value) == Ok(item)

\* item[key] = value
set_item(item, key, value) ==
    IF item.t = "map" THEN Ok(Map(DictSet(item.m, key, value)))
    ELSE IF item.t = "list"
    THEN IF ~IsIdx(key) THEN Err("TypeError")
         ELSE IF SeqIndex(Len(item.l), key.idx) = 0 THEN Err("IndexError")
         ELSE Ok(List([item.l EXCEPT
                          ![SeqIndex(Len(item.l), key.idx)] = value]))
    ELSE Err("TypeError")

\* hierarchy_get(root, path): the item at the path, or the exception
\* raised on the way.
RECURSIVE hierarchy_get(_, _)
hierarchy_get(root, path) ==
    IF path = <<>> THEN Ok(root)
    ELSE LET item == get_item(root, path[1])
         IN IF item.status # "ok" THEN item
            ELSE hierarchy_get(item.value, Tail(path))

\* hierarchy_set(root, path, value): root after the assignment, or the
\* exception raised on the way.
RECURSIVE hierarchy_set(_, _, _)
hierarchy_set(root, path, value) ==
    IF path = <<>> THEN Err("IndexError")
    ELSE IF Len(path) = 1 THEN set_item(root, path[1], value)
    ELSE LET item == get_item(root, path[1])
         IN IF item.status # "ok" THEN item
            ELSE LET below == hierarchy_set(item.value, Tail(path), value)
                 IN IF below.status # "ok" THEN below
                    ELSE set_item(root, path[1], below.value)

\* A variant that takes every string for a placeholder.
startswith_eq_any(node) == TRUE

\* node.startswith('=')
startswith_eq(node) == node.v # <<>> /\ node.v[1] = "="

\* The keys of a dict in the order it iterates them.
IterKeys(f, order) == SelectSeq(order, LAMBDA key : key \in DOMAIN f)

\* A variant that records the last place of a variable only.
RECURSIVE locate_free_vars_last(_, _, _, _)
locate_free_vars_last(table, node, curPath, order) ==
    IF node.t = "str"
    THEN IF startswith_eq(node)
         THEN DictSet(table, Tail(node.v), <<curPath>>)
         ELSE table
    ELSE LET keys == IF node.t = "list"
                     THEN [i \in 1..Len(node.l) |-> Idx(i - 1)]
                     ELSE IF node.t = "map" THEN IterKeys(node.m, order)
                     ELSE <<>>
             visit[i \in 0..Len(keys)] ==
                 IF i = 0 THEN table
                 ELSE locate_free_vars_last(visit[i - 1],
                          get_item(node, keys[i]).value,
                          Append(curPath, keys[i]), order)
         IN visit[Len(keys)]

\* ObservationPrototype._locate_free_vars: the table of free variables
\* after node has been visited at curPath.
RECURSIVE locate_free_vars(_, _, _, _)
locate_free_vars(table, node, curPath, order) ==
    IF node.t = "str"
    THEN IF startswith_eq(node)
         THEN IF Tail(node.v) \in DOMAIN table
              THEN DictSet(table, Tail(node.v),
                           Append(table[Tail(node.v)], curPath))
              ELSE DictSet(table, Tail(node.v), <<curPath>>)
         ELSE table
    ELSE LET keys == IF node.t = "list"
                     THEN [i \in 1..Len(node.l) |-> Idx(i - 1)]
                     ELSE IF node.t = "map" THEN IterKeys(node.m, order)
                     ELSE <<>>
             visit[i \in 0..Len(keys)] ==
                 IF i = 0 THEN table
                 ELSE locate_free_vars(visit[i - 1],
                          get_item(node, keys[i]).value,
                          Append(curPath, keys[i]), order)
         IN visit[Len(keys)]

\* A variant that hands back the object itself.
deepcopy_same_object(x) == [value |-> x, shares |-> "all"]

\* copy.deepcopy(x): an equal document that shares no object with x.
deepcopy(x) == [value |-> x, shares |-> "none"]

\* FrozenDict.__init__: dict(copy.deepcopy(data)), a new dict in any case.
FrozenDict_init(data) ==
    LET copied == deepcopy(data)
    IN [value |-> copied.value,
        shares |-> IF copied.shares = "all" THEN "nested" ELSE copied.shares]

\* for path in self._freeVarPaths[key]: hierarchy_set(newObs, path, value)
RECURSIVE set_paths(_, _, _)
set_paths(newObs, paths, value) ==
    IF paths = <<>> THEN newObs
    ELSE set_paths(hierarchy_set(newObs, Head(paths), value).value,
                   Tail(paths), value)

\* for key in set(args).intersection(set(self._freeVarPaths)): ...
RECURSIVE fill_free_vars(_, _, _, _)
fill_free_vars(newObs, keys, freeVarPaths, args) ==
    IF keys = {} THEN newObs
    ELSE LET key == CHOOSE k \in keys : TRUE
         IN fill_free_vars(set_paths(newObs, freeVarPaths[key], args[key]),
                           keys \ {key}, freeVarPaths, args)

\* ObservationPrototype.make_obs(args) on a prototype with the given _data
\* and _freeVarPaths: the document returned.
make_obs_result(data, freeVarPaths, args) ==
    fill_free_vars(data, DOMAIN args \cap DOMAIN freeVarPaths,
                   freeVarPaths, args)

\* A variant that pairs the names with the values after the first.
code_bindings_shifted(argNames, args) ==
    ZipDict(argNames, IF args = <<>> THEN <<>> ELSE Tail(args))

\* dict(zip(self.argNames, args))
code_bindings(argNames, args) == ZipDict(argNames, args)

(***************************************************************************)
(* A Code and its ObservationPrototype as a state machine.  The caller     *)
(* writes an entry literal, builds the Code from it, calls make_obs on the *)
(* prototype and on the Code, and is free to assign into the literal and   *)
(* into the document it got back.  What an assignment by the caller does   *)
(* to the prototype depends on what the two documents share: nothing       *)
(* ("none"), the objects below the top-level dict ("nested") or all        *)
(* ("all").                                                                *)
(***************************************************************************)
VarW == <<"w">>

VarX == <<"x">>

PlaceW == Str(<<"=", "w">>)

PlaceX == Str(<<"=", "x">>)

TplLeaves == {PlaceW, PlaceX, Num(1)}

TplNodes ==
    TplLeaves
    \cup {List(q) : q \in StrsUpTo({PlaceW, PlaceX}, MaxListLen)}
    \cup {Map(Key("k") :> leaf) : leaf \in TplLeaves}
    \cup {Map(Idx(0) :> PlaceX), Map(Key("k") :> List(<<PlaceW>>))}

Templates ==
    {Map((Key("event") :> e) @@ (Key("actor") :> a)) :
        e \in {PlaceW, Str(<<"a">>)}, a \in TplNodes}

KeyOrders ==
    {root \o <<Key("k"), Idx(0)>> :
        root \in Orders({Key("event"), Key("actor")})}

NamesInputs == {<<>>, <<VarW, VarX>>, <<VarW, VarW>>}

TplArgsInputs ==
    {EmptyDict,
     VarW :> Str(<<"A">>),
     VarW :> List(<<Str(<<"A">>)>>),
     (VarW :> Str(<<"A">>)) @@ (VarX :> Str(<<"B">>)),
     <<"u">> :> Str(<<"A">>),
     VarX :> PlaceW}

ValueNames == <<"A", "B", "C", "D", "E">>

PositionalValues ==
    {[i \in 1..n |-> Str(<<ValueNames[i]>>)] : n \in 0..MaxArgValues}

\* What the caller assigns into a document it holds.
MutValue == Str(<<"Z">>)

ChildKeys(node) ==
    IF node.t = "map" THEN DOMAIN node.m
    ELSE IF node.t = "list" THEN {Idx(i - 1) : i \in 1..Len(node.l)}
    ELSE {}

\* The places of a document, one or two levels down, the caller assigns to.
MutablePaths(doc) ==
    {<<a>> : a \in ChildKeys(doc)}
    \cup UNION {{<<a, b>> : b \in ChildKeys(get_item(doc, a).value)} :
                   a \in ChildKeys(doc)}

\* The assignment at path into a document that shares share with the
\* prototype's _data reaches _data.
Reaches(share, path) == share = "all" \/ (share = "nested" /\ Len(path) > 1)

\* _data after the caller assigned MutValue at path in such a document.
DataAfterAssign(share, path) ==
    IF Reaches(share, path)
       /\ hierarchy_set(tplData, path, MutValue).status = "ok"
    THEN hierarchy_set(tplData, path, MutValue).value
    ELSE tplData

TplInit ==
    /\ tplPc = "literal"
    /\ tplLiteral \in Templates
    /\ tplOrder \in KeyOrders
    /\ tplNames \in NamesInputs
    /\ tplData = NoDoc
    /\ tplFreeVars = EmptyDict
    /\ tplShares = [literal |-> "none", out |-> "none"]
    /\ tplCall = NoCall
    /\ tplOut = NoDoc
    /\ tplOrig = EmptyDict
    /\ tplPrev = NoCall
    /\ kvPc = "off"
    /\ kvMap = EmptyDict
    /\ kvText = <<>>
    /\ kvOut = NoOut
    /\ reRule = "retry"
    /\ EthInit
    /\ AuxOff
    /\ LoadOff

\* Code.__init__ and, within it, ObservationPrototype.__init__.
Construct ==
    /\ tplPc = "literal"
    /\ LET proto == FrozenDict_init(tplLiteral)
           entry == FrozenDict_init(proto.value)
           table == locate_free_vars(EmptyDict, proto.value, <<>>, tplOrder)
       IN /\ tplData' = entry.value
          /\ tplFreeVars' = table
          /\ tplShares' = [tplShares EXCEPT
                              !.literal = IF entry.shares = "none"
                                          THEN "none" ELSE proto.shares]
          /\ tplOrig' = [data |-> tplLiteral, vars |-> table]
    /\ tplPc' = "ready"
    /\ tplCall' = [op |-> "construct"]
    /\ UNCHANGED <<tplLiteral, tplOrder, tplNames, tplOut, tplPrev, kvVars,
                   ethVars, ldVars, auxVars>>

\* ObservationPrototype.make_obs(args), recorded as the call callrec.
prototype_make_obs(callrec, args) ==
    LET newObs == deepcopy(tplData)
        filled == make_obs_result(newObs.value, tplFreeVars, args)
    IN /\ tplOut' = filled
       /\ tplData' = IF newObs.shares = "all" THEN filled ELSE tplData
       /\ tplShares' = [tplShares EXCEPT !.out = newObs.shares]
       /\ tplCall' = callrec
       /\ tplPrev' = IF tplCall.op = "make_obs"
                     THEN [op |-> "make_obs", args |-> tplCall.args,
                           out |-> tplOut]
                     ELSE tplPrev
       /\ UNCHANGED <<tplPc, tplLiteral, tplOrder, tplNames, tplFreeVars,
                      tplOrig, kvVars, ethVars, ldVars, auxVars>>

make_obs(args) ==
    /\ tplPc = "ready"
    /\ prototype_make_obs([op |-> "make_obs", args |-> args], args)

Code_make_obs(args) ==
    /\ tplPc = "ready"
    /\ prototype_make_obs([op |-> "Code_make_obs", values |-> args],
                          code_bindings(tplNames, args))

\* The caller assigns into the document the last make_obs returned.
MutateOut(path) ==
    /\ tplPc = "ready"
    /\ tplCall.op \in {"make_obs", "Code_make_obs"}
    /\ path \in MutablePaths(tplOut)
    /\ tplOut' = hierarchy_set(tplOut, path, MutValue).value
    /\ tplData' = DataAfterAssign(tplShares.out, path)
    /\ tplCall' = [op |-> "mutate_out", path |-> path]
    /\ UNCHANGED <<tplPc, tplLiteral, tplOrder, tplNames, tplFreeVars,
                   tplShares, tplOrig, tplPrev, kvVars, ethVars, ldVars, auxVars>>

\* The caller assigns into the literal it built the Code from.
MutateLiteral(path) ==
    /\ tplPc = "ready"
    /\ tplLiteral = tplOrig.data
    /\ path \in MutablePaths(tplLiteral)
    /\ tplLiteral' = hierarchy_set(tplLiteral, path, MutValue).value
    /\ tplData' = DataAfterAssign(tplShares.literal, path)
    /\ UNCHANGED <<tplPc, tplOrder, tplNames, tplFreeVars, tplShares, tplCall,
                   tplOut, tplOrig, tplPrev, kvVars, ethVars, ldVars, auxVars>>

TemplateNext ==
    \/ Construct
    \/ \E args \in TplArgsInputs : make_obs(args)
    \/ \E args \in PositionalValues : Code_make_obs(args)
    \/ \E path \in MutablePaths(tplOut) : MutateOut(path)
    \/ \E path \in MutablePaths(tplLiteral) : MutateLiteral(path)

TemplateSpec == TplInit /\ [][TemplateNext]_vars

(***************************************************************************)
(* Ethogram.new_from_file                                                  *)
(*                                                                         *)
(* A file is a sequence of lines, a line a sequence of glyphs; the tags,   *)
(* the keys and the names are one glyph each, ":", "=", "," and "#" are    *)
(* glyphs of their own.  The loop body is one step: it processes the next  *)
(* line, or raises and ends the load.                                      *)
(***************************************************************************)
\* line.partition(sep): the text before the first sep and the text after.
str_partition(line, sep) ==
    LET at == {i \in 1..Len(line) : line[i] = sep}
    IN IF at = {} THEN [head |-> line, tail |-> <<>>]
       ELSE LET i == CHOOSE i \in at : \A j \in at : i <= j
            IN [head |-> SubSeq(line, 1, i - 1),
                tail |-> SubSeq(line, i + 1, Len(line))]

\* str.strip()
RECURSIVE str_strip(_)
str_strip(s) ==
    IF s = <<>> THEN <<>>
    ELSE IF IsSpace(s[1]) THEN str_strip(Tail(s))
    ELSE IF IsSpace(s[Len(s)]) THEN str_strip(SubSeq(s, 1, Len(s) - 1))
    ELSE s

\* A variant whose last branch takes every remaining tag as 'code'.
line_branch_else_code(head) ==
    IF head # <<>> /\ head[1] = "#" THEN "comment"
    ELSE IF head = <<"name">> THEN "name"
    ELSE IF head = <<"behavior">> THEN "behavior"
    ELSE "code"

\* The branch of the if/elif chain that the tag selects.
line_branch(head) ==
    IF head # <<>> /\ head[1] = "#" THEN "comment"
    ELSE IF head = <<"name">> THEN "name"
    ELSE IF head = <<"behavior">> THEN "behavior"
    ELSE IF head = <<"code">> THEN "code"
    ELSE "none"

\* **behav_def, **code_def: the parsed mapping as keyword arguments, a key
\* of one glyph being the keyword of that name.
Keywords(map) ==
    [k \in {key[1] : key \in {x \in DOMAIN map : Len(x) = 1}} |-> map[<<k>>]]

\* The parsed args value as parameter names: a name of one glyph is the
\* key it stands for in an observation.
ParamNames(val) ==
    IF val.t = "str" THEN Str(val.v[1])
    ELSE Tup([i \in 1..Len(val.v) |-> val.v[i][1]])

\* add_behavior(**behav_def): a required keyword is missing or a keyword
\* is unexpected.
behavior_keywords_check(def) ==
    IF {"kind", "name"} \subseteq DOMAIN def
       /\ DOMAIN def \subseteq {"kind", "name", "values"}
    THEN "ok" ELSE "TypeError"

\* add_code(**code_def): a required keyword is missing.
code_keywords_check(def) ==
    IF {"symbol", "name"} \subseteq DOMAIN def THEN "ok" ELSE "TypeError"

\* An exception leaves the loop: no Ethogram is returned.
LoadFail(exc) ==
    /\ ldStatus' = exc
    /\ UNCHANGED <<ldPos, ethName, behaviors, codes, declared>>

\* The loop goes on to the next line.
LoadAdvance ==
    /\ ldPos' = ldPos + 1
    /\ ldStatus' = ldStatus

\* behav_def = parse_keyvals(tail); ethogram.add_behavior(**behav_def)
LoadBehavior(parsed) ==
    LET def == Keywords(parsed.map)
    IN IF parsed.status # "ok" THEN LoadFail(parsed.status)
       ELSE IF behavior_keywords_check(def) # "ok"
       THEN LoadFail(behavior_keywords_check(def))
       ELSE IF add_behavior_check(def.kind.v) # "ok"
       THEN LoadFail(add_behavior_check(def.kind.v))
       ELSE /\ behaviors' =
                  register(behaviors, def.name.v,
                           new_behavior(def.kind.v, def.name.v,
                                        IF "values" \in DOMAIN def
                                        THEN def.values ELSE PyNone))
            /\ LoadAdvance
            /\ UNCHANGED <<ethName, codes, declared>>

\* code_def = parse_keyvals(tail); ethogram.add_code(**code_def)
LoadCode(parsed) ==
    LET def == Keywords(parsed.map)
    IN IF parsed.status # "ok" THEN LoadFail(parsed.status)
       ELSE IF code_keywords_check(def) # "ok"
       THEN LoadFail(code_keywords_check(def))
       ELSE IF add_code_check(def.symbol.v, def.name.v) # "ok"
       THEN LoadFail(add_code_check(def.symbol.v, def.name.v))
       ELSE LET args == IF "args" \in DOMAIN def
                        THEN ParamNames(def.args) ELSE PyNone
                kargs == [k \in DOMAIN def \ {"symbol", "name", "args"} |->
                             def[k].v]
            IN /\ \E argOrder \in (IF args = PyNone THEN {<<>>}
                                   ELSE Orders(NameSet(args))) :
                      codes' = register(codes, def.symbol.v,
                                   new_code(def.symbol.v, def.name.v, args,
                                            kargs, argOrder))
               /\ declared' = DictSet(declared, def.symbol.v, args)
               /\ LoadAdvance
               /\ UNCHANGED <<ethName, behaviors>>

\* One pass of the loop body of new_from_file.
LoadLine ==
    /\ ldStatus = "loading"
    /\ ldPos < Len(ldLines)
    /\ LET parts == str_partition(ldLines[ldPos + 1], ":")
           head == str_strip(parts.head)
           tail == str_strip(parts.tail)
       IN IF line_branch(head) = "behavior"
          THEN LoadBehavior(parse_keyvals(tail, reRule))
          ELSE IF line_branch(head) = "code"
          THEN LoadCode(parse_keyvals(tail, reRule))
          ELSE IF line_branch(head) = "name"
          THEN /\ ethName' = tail
               /\ LoadAdvance
               /\ UNCHANGED <<behaviors, codes, declared>>
          ELSE /\ LoadAdvance
               /\ UNCHANGED <<ethName, behaviors, codes, declared>>
    /\ UNCHANGED <<ldLines, overwrote, call, result, kvVars, tplVars, auxVars>>

\* return ethogram
LoadReturn ==
    /\ ldStatus = "loading"
    /\ ldPos = Len(ldLines)
    /\ ldStatus' = "returned"
    /\ UNCHANGED <<ldLines, ldPos, ethName, ethVars, kvVars, tplVars, auxVars>>

FileLines ==
    {<<"behavior", ":", "kind", "=", "moment", " ", "name", "=", "b1">>,
     <<"behavior", ":", " ", "kind", "=", "state", " ", "name", "=", "b2",
       " ", "values", "=", "sit", ",", "stand", " ">>,
     <<"behavior", ":", "kind", "=", "bogus", " ", "name", "=", "b1">>,
     <<"code", ":", "symbol", "=", "s", " ", "name", "=", "b1">>,
     <<"code", " ", ":", " ", "symbol", "=", "t", " ", "name", "=", "b2", " ",
       "args", "=", "value">>,
     <<"code", ":", "name", "=", "b1">>,
     <<"name", ":", " ", "My", " ", "study", " ">>,
     <<" ", "#", "code", ":", "symbol", "=", "s", " ", "name", "=", "b2">>,
     <<"note", ":", "kind", "=", "moment", " ", "name", "=", "b2">>,
     <<" ">>}

LoadInit ==
    /\ ldLines \in StrsUpTo(FileLines, MaxLines)
    /\ ldPos = 0
    /\ ldStatus = "loading"
    /\ ethName = <<>>
    /\ kvPc = "off"
    /\ kvMap = EmptyDict
    /\ kvText = <<>>
    /\ kvOut = NoOut
    /\ reRule \in {"skip", "retry"}
    /\ EthInit
    /\ AuxOff
    /\ TplOff

LoadNext == LoadLine \/ LoadReturn

LoadSpec == LoadInit /\ [][LoadNext]_vars

(***************************************************************************)
(* Several threads reading one loaded Ethogram.  A call of parse_entry or  *)
(* get_prototype reads self.__codes and self.__behaviors in separate       *)
(* steps, and a step of one thread may run between two steps of another.   *)
(* What a thread has read is kept in its local variables.                  *)
(***************************************************************************)
MaxThreads == 2

Threads == 1..MaxThreads

\* The local variables of a call that has read nothing yet.
NoLocal == [code |-> EmptyDict, behavior |-> EmptyDict, proto |-> EmptyDict]

\* A lookup that stores the default under the key it did not find, as
\* dict.setdefault does.
dict_after_lookup_setdefault(registry, key) ==
    IF key \in DOMAIN registry THEN registry
    ELSE DictSet(registry, key, EmptyDict)

\* The dict after registry[key] or registry.get(key, {}): a lookup leaves
\* the dict as it was, whether the key is found or not.
dict_after_lookup(registry, key) == registry

\* registry.get(key, {})
dict_get(registry, key) ==
    IF key \in DOMAIN registry THEN registry[key] ELSE EmptyDict

\* get_prototype: the dict built from the code and the behavior it read.
get_prototype_build(entry, code, behavior) ==
    LET args == Tail(str_split(entry))
        proto0 == [entry |-> entry, name |-> behavior.name,
                   kind |-> behavior.kind]
        proto1 == DictUpdate(proto0,
                             keys_lose(code, {"symbol", "name", "args"}))
    IN IF "args" \in DOMAIN code
       THEN DictUpdate(proto1, ZipDict(code.args, args))
       ELSE proto1

\* parse_entry: the dict built from the code and the behavior it read.
parse_entry_build(entry, code, behavior) ==
    LET entry_args == Tail(str_split(entry))
        obs_entry == [entry |-> entry]
        obs_behavior == keys_keep(behavior, {"name", "kind"})
        obs_code == keys_lose(code, {"symbol", "name", "args"})
        obs_args == ZipDict(IF "args" \in DOMAIN code THEN code.args ELSE <<>>,
                            entry_args)
    IN join_dicts(<<obs_entry, obs_behavior, obs_code, obs_args>>)

\* The thread's call ends with the outcome r.
ThFinish(t, r) ==
    /\ thPc' = [thPc EXCEPT ![t] = "done"]
    /\ thResult' = [thResult EXCEPT ![t] = r]

\* The thread's call goes on at pc.
ThGoto(t, pc) ==
    /\ thPc' = [thPc EXCEPT ![t] = pc]
    /\ UNCHANGED thResult

\* The call is entered: len(entry) == 0 (parse_entry), entry.split() and
\* entry_items[0], none of which reads the registries.  validate_obs is
\* declared without self and raises TypeError when it is called.
ThStart(t, c) ==
    /\ thPc[t] = "idle"
    /\ thCall' = [thCall EXCEPT ![t] = c]
    /\ IF c.op = "validate_obs" THEN ThFinish(t, Raised("TypeError"))
       ELSE IF c.op = "parse_entry" /\ Len(c.entry) = 0
       THEN ThFinish(t, Returned([entry |-> c.entry]))
       ELSE IF str_split(c.entry) = <<>> THEN ThFinish(t, Raised("IndexError"))
       ELSE ThGoto(t, "code")
    /\ UNCHANGED <<thLocal, thLoaded, ethVars, kvVars, tplVars, ldVars, fsVars, phVars, uiVars>>

\* code = self.__codes[symbol] (get_prototype), or
\* code = self.__codes.get(symbol, {}) (parse_entry)
ThReadCode(t) ==
    /\ thPc[t] = "code"
    /\ LET symbol == str_split(thCall[t].entry)[1]
       IN /\ codes' = dict_after_lookup(codes, symbol)
          /\ IF thCall[t].op = "get_prototype" /\ symbol \notin DOMAIN codes
             THEN ThFinish(t, Raised("KeyError")) /\ UNCHANGED thLocal
             ELSE /\ thLocal' = [thLocal EXCEPT
                                    ![t].code = dict_get(codes, symbol)]
                  /\ ThGoto(t, "behavior")
    /\ UNCHANGED <<thCall, thLoaded, behaviors, declared, overwrote, call,
                   result, kvVars, tplVars, ldVars, fsVars, phVars, uiVars>>

\* behavior = self.__behaviors[code['name']] (get_prototype), after which
\* new_proto is built; or
\* behavior = self.__behaviors.get(code.get('name'), {}) (parse_entry),
\* after which the joined dict is returned.
ThReadBehavior(t) ==
    /\ thPc[t] = "behavior"
    /\ LET c == thCall[t]
           code == thLocal[t].code
       IN IF c.op = "get_prototype"
          THEN /\ behaviors' = dict_after_lookup(behaviors, code.name)
               /\ IF code.name \notin DOMAIN behaviors
                  THEN ThFinish(t, Raised("KeyError")) /\ UNCHANGED thLocal
                  ELSE /\ thLocal' = [thLocal EXCEPT
                              ![t].behavior = behaviors[code.name],
                              ![t].proto = get_prototype_build(c.entry, code,
                                               behaviors[code.name])]
                       /\ ThGoto(t, "validate")
          ELSE /\ behaviors' = IF "name" \in DOMAIN code
                               THEN dict_after_lookup(behaviors, code.name)
                               ELSE behaviors
               /\ LET behavior == IF "name" \in DOMAIN code
                                  THEN dict_get(behaviors, code.name)
                                  ELSE EmptyDict
                  IN /\ thLocal' = [thLocal EXCEPT ![t].behavior = behavior]
                     /\ ThFinish(t, Returned(
                            parse_entry_build(c.entry, code, behavior)))
    /\ UNCHANGED <<thCall, thLoaded, codes, declared, overwrote, call, result,
                   kvVars, tplVars, ldVars, fsVars, phVars, uiVars>>

\* self.__validate_obs(new_proto); return new_proto: the check reads
\* self.__behaviors again.
ThValidate(t) ==
    /\ thPc[t] = "validate"
    /\ LET new_proto == thLocal[t].proto
           check == validate_obs_private(new_proto)
       IN /\ behaviors' = dict_after_lookup(behaviors, new_proto.name)
          /\ ThFinish(t, IF check # "ok" THEN Raised(check)
                         ELSE Returned(new_proto))
    /\ UNCHANGED <<thCall, thLocal, thLoaded, codes, declared, overwrote, call,
                   result, kvVars, tplVars, ldVars, fsVars, phVars, uiVars>>

\* The caller takes the outcome; the thread is free for its next call.
ThCollect(t) ==
    /\ thPc[t] = "done"
    /\ thPc' = [thPc EXCEPT ![t] = "idle"]
    /\ thCall' = [thCall EXCEPT ![t] = NoCall]
    /\ thLocal' = [thLocal EXCEPT ![t] = NoLocal]
    /\ thResult' = [thResult EXCEPT ![t] = NoResult]
    /\ UNCHANGED <<thLoaded, ethVars, kvVars, tplVars, ldVars, fsVars, phVars, uiVars>>

\* Ethograms as add_behavior and add_code leave them.
StateSit == new_behavior(<<"state">>, <<"b1">>,
                         Tup(<< <<"sit">>, <<"stand">> >>))

MomentB1 == new_behavior(<<"moment">>, <<"b1">>, PyNone)

LoadedEthograms ==
    {[behaviors |-> EmptyDict, codes |-> EmptyDict],
     [behaviors |-> register(EmptyDict, <<"b1">>, StateSit),
      codes |-> register(EmptyDict, <<"s">>,
                    new_code(<<"s">>, <<"b1">>, Str("value"), EmptyDict,
                             <<"value">>))],
     [behaviors |-> register(EmptyDict, <<"b1">>, MomentB1),
      codes |-> register(
                    register(EmptyDict, <<"s">>,
                        new_code(<<"s">>, <<"b1">>, PyNone,
                                 [value |-> <<"sit">>], <<>>)),
                    <<"t">>,
                    new_code(<<"t">>, <<"b1">>, PyNone,
                             [kind |-> <<"state">>], <<>>))]}

ThEntryInputs ==
    {<<>>, <<" ">>, <<"s">>, <<"s", " ", "sit">>, <<"s", " ", "run">>,
     <<"t">>, <<"x">>}

ThCallInputs ==
    {[op |-> op, entry |-> e] :
        op \in {"parse_entry", "get_prototype"}, e \in ThEntryInputs}
    \cup {[op |-> "validate_obs", obs |-> o] :
            o \in {[name |-> <<"b1">>, kind |-> <<"state">>,
                    value |-> <<"sit">>]}}

ConcInit ==
    /\ kvPc = "off"
    /\ kvMap = EmptyDict
    /\ kvText = <<>>
    /\ kvOut = NoOut
    /\ reRule = "retry"
    /\ TplOff
    /\ LoadOff
    /\ FsOff
    /\ PhOff
    /\ UiOff
    /\ \E e \in LoadedEthograms :
           /\ behaviors = e.behaviors
           /\ codes = e.codes
           /\ thLoaded = e
    /\ declared = EmptyDict
    /\ overwrote = FALSE
    /\ call = NoCall
    /\ result = NoResult
    /\ thPc = [t \in Threads |-> "idle"]
    /\ thCall = [t \in Threads |-> NoCall]
    /\ thLocal = [t \in Threads |-> NoLocal]
    /\ thResult = [t \in Threads |-> NoResult]

ConcNext ==
    \E t \in Threads :
        \/ \E c \in ThCallInputs : ThStart(t, c)
        \/ ThReadCode(t)
        \/ ThReadBehavior(t)
        \/ ThValidate(t)
        \/ ThCollect(t)

ConcSpec == ConcInit /\ [][ConcNext]_vars

(***************************************************************************)
(* Project.save_obslist and the directory of observation files.  A file    *)
(* name is a sequence of characters (the suffix tbobs is one glyph); the   *)
(* files of the project root are a function from names to contents.  The   *)
(* project root itself has no character that glob treats specially.        *)
(***************************************************************************)
MaxSaves == 3

Digits == <<"0", "1", "2", "3", "4", "5", "6", "7", "8", "9">>

\* str(n) for n >= 0
RECURSIVE str_of_int(_)
str_of_int(n) ==
    IF n < 10 THEN <<Digits[n + 1]>>
    ELSE str_of_int(n \div 10) \o <<Digits[(n % 10) + 1]>>

IsDigits(s) == s # <<>> /\ \A i \in 1..Len(s) : s[i] \in Range(Digits)

\* int(s) for a string of decimal digits
RECURSIVE int_of_str(_)
int_of_str(s) ==
    IF s = <<>> THEN 0
    ELSE 10 * int_of_str(SubSeq(s, 1, Len(s) - 1))
         + (CHOOSE d \in 0..9 : Digits[d + 1] = s[Len(s)])

\* s.rsplit('.', 1)[-1]: what follows the last '.', or s without one.
rsplit_last(s) ==
    LET dots == {i \in 1..Len(s) : s[i] = "."}
    IN IF dots = {} THEN s
       ELSE SubSeq(s, (CHOOSE i \in dots : \A j \in dots : j <= i) + 1, Len(s))

\* fnmatch.translate: the position of the ']' that closes the '[' at the
\* head of pat, 0 when there is none (the '[' is then an ordinary character).
ClassEnd(pat) ==
    LET n == Len(pat)
        j1 == IF 2 <= n /\ pat[2] = "!" THEN 3 ELSE 2
        j2 == IF j1 <= n /\ pat[j1] = "]" THEN j1 + 1 ELSE j1
        closes == {j \in j2..n : pat[j] = "]"}
    IN IF closes = {} THEN 0 ELSE CHOOSE j \in closes : \A k \in closes : j <= k

\* Whether the character c is in the class [stuff] (no ranges among the
\* model's characters).
InClass(stuff, c) ==
    IF stuff # <<>> /\ stuff[1] = "!"
    THEN c \notin Range(Tail(stuff))
    ELSE c \in Range(stuff)

\* fnmatch.fnmatch(name, pat): '*' matches everything, '?' one character,
\* [seq] one character of seq, anything else itself.
RECURSIVE fnmatch(_, _)
fnmatch(pat, name) ==
    IF pat = <<>> THEN name = <<>>
    ELSE IF pat[1] = "*"
    THEN \E k \in 0..Len(name) :
             fnmatch(Tail(pat), SubSeq(name, k + 1, Len(name)))
    ELSE IF pat[1] = "?"
    THEN name # <<>> /\ fnmatch(Tail(pat), Tail(name))
    ELSE IF pat[1] = "[" /\ ClassEnd(pat) # 0
    THEN /\ name # <<>>
         /\ InClass(SubSeq(pat, 2, ClassEnd(pat) - 1), name[1])
         /\ fnmatch(SubSeq(pat, ClassEnd(pat) + 1, Len(pat)), Tail(name))
    ELSE name # <<>> /\ name[1] = pat[1] /\ fnmatch(Tail(pat), Tail(name))

\* glob.glob(pattern) in the project root: the files whose names match; a
\* name with a leading '.' is left out unless the pattern has one.
glob(files, pattern) ==
    {f \in DOMAIN files :
        /\ fnmatch(pattern, f)
        /\ (f # <<>> /\ f[1] = ".") => (pattern # <<>> /\ pattern[1] = ".")}

\* Project.get_obsfile: '.'.join([join_project_path(videofile), observer,
\* 'tbobs']), relative to the project root.
get_obsfile(videofile, observer) ==
    videofile \o <<".">> \o observer \o <<".", "tbobs">>

\* The observers of the project file: observer: code=o name=Olga, ...
ProjectObservers ==
    <<[code |-> <<"o">>, name |-> <<"O", "l">>],
      [code |-> <<"p">>, name |-> <<"P", "a">>]>>

\* Project.get_observer_name(code): matches[0]['name'], where found.
get_observer_name(code) ==
    LET matches == {i \in 1..Len(ProjectObservers) :
                        ProjectObservers[i].code = code}
    IN IF matches = {} THEN Err("IndexError")
       ELSE Ok(ProjectObservers[CHOOSE i \in matches :
                                    \A j \in matches : i <= j].name)

\* backup_N: 1 without backups, else 1 + the largest backup number.
backup_number(cur_backups) ==
    IF cur_backups = {} THEN 1
    ELSE LET numbers == {int_of_str(rsplit_last(s)) : s \in cur_backups}
         IN 1 + CHOOSE n \in numbers : \A m \in numbers : m <= n

\* What save_obslist writes: the observer line, the source line and one obs
\* line for every observation; orders[i] is the order in which the i-th
\* observation's items are iterated.  The model's observations have string
\* keys, so as_keyvalstr raises no TypeError and none is skipped.
obsfile_text(observer_name, videofile, obslist, orders) ==
    <<<<"observer: ">> \o observer_name, <<"source: ">> \o videofile>>
    \o [i \in 1..Len(obslist) |->
           <<"obs: ">> \o as_keyvalstr(obslist[i], orders[i])]

ItemOrders(obslist) ==
    {q \in [1..Len(obslist) ->
                UNION {Orders(DOMAIN o) : o \in Range(obslist)}] :
        \A i \in 1..Len(obslist) : q[i] \in Orders(DOMAIN obslist[i])}

\* The call raises exc; no file is touched.
SaveFail(exc) ==
    /\ fsStatus' = exc
    /\ UNCHANGED <<fsFiles, fsDir, fsSaved>>

\* with open(obsfile, 'w') as f: ... on the files left by the rename.
SaveWrite(files, obsfile, text) ==
    /\ fsFiles' = DictSet(files, obsfile, text)
    /\ fsSaved' = Append(fsSaved, text)
    /\ fsDir' = TRUE
    /\ fsStatus' = "returned"

\* Project.save_obslist(videofile, observer, obslist).  os.rename onto an
\* existing file replaces it on POSIX and raises OSError on Windows.
save_obslist(obslist) ==
    /\ fsStatus # "off"
    /\ Len(fsSaved) < MaxSaves
    /\ LET observer_name == get_observer_name(fsObserver)
           obsfile == get_obsfile(fsVideo, fsObserver)
           cur_backups == glob(fsFiles, obsfile \o <<".", "*">>)
       IN IF observer_name.status # "ok" THEN SaveFail(observer_name.status)
          ELSE \E orders \in ItemOrders(obslist) :
              LET text == obsfile_text(observer_name.value, fsVideo, obslist,
                                       orders)
              IN IF obsfile \notin DOMAIN fsFiles
                 THEN SaveWrite(fsFiles, obsfile, text)
                 ELSE IF \E s \in cur_backups : ~IsDigits(rsplit_last(s))
                 THEN SaveFail("ValueError")
                 ELSE LET backup_path ==
                              obsfile \o <<".">>
                              \o str_of_int(backup_number(cur_backups))
                          renamed ==
                              [f \in (DOMAIN fsFiles \ {obsfile})
                                     \cup {backup_path} |->
                                  IF f = backup_path THEN fsFiles[obsfile]
                                  ELSE fsFiles[f]]
                      IN \/ SaveWrite(renamed, obsfile, text)
                         \/ /\ backup_path \in DOMAIN fsFiles
                            /\ SaveFail("OSError")
    /\ UNCHANGED <<fsVideo, fsObserver, ethVars, kvVars, tplVars, ldVars,
                   thVars, phVars, uiVars>>

VideoNames ==
    {<<"a">>, <<"a", "[", "1", "]">>, <<"a", "?">>, <<"[", "a">>}

SavedObs ==
    {(<<"entry">> :> Str(<<"s">>)),
     (<<"entry">> :> Str(<<"s", " ", "x">>)) @@ (<<"time">> :> Str(<<"1">>))}

ObsLists == StrsUpTo(SavedObs, 1)

FsInit ==
    /\ kvPc = "off"
    /\ kvMap = EmptyDict
    /\ kvText = <<>>
    /\ kvOut = NoOut
    /\ reRule = "retry"
    /\ EthInit
    /\ TplOff
    /\ LoadOff
    /\ ThOff
    /\ PhOff
    /\ UiOff
    /\ fsFiles = EmptyDict
    /\ fsDir = FALSE
    /\ fsVideo \in VideoNames
    /\ fsObserver \in {o.code : o \in Range(ProjectObservers)}
    /\ fsSaved = <<>>
    /\ fsStatus = "ready"

FsNext == \E obslist \in ObsLists : save_obslist(obslist)

FsSpec == FsInit /\ [][FsNext]_vars

(***************************************************************************)
(* hierarchy_get and hierarchy_set applied to a tree, a path and a value.  *)
(* The caller holds the tree; a successful hierarchy_set changes it in     *)
(* place, a failing call raises before its only assignment.                *)
(***************************************************************************)
MaxPathLen == 2

PathSegments == {Key("k"), Key("j"), Idx(0), Idx(1), Idx(-1)}

PathInputs == StrsUpTo(PathSegments, MaxPathLen)

PathRoots ==
    {Map((Key("k") :> List(<<Str(<<"a">>), Num(1)>>))
         @@ (Key("j") :> Map(Key("k") :> Str(<<"b">>)))),
     List(<<Map(Key("k") :> Str(<<"a", "b">>)), List(<<>>)>>),
     Map(Idx(0) :> List(<<Str(<<"a">>)>>)),
     List(<<>>)}

PathValues == {Str(<<"v">>), List(<<Num(2)>>)}

\* hierarchy_set(root, path, value) on the tree the caller holds.
PathSet ==
    /\ phPc = "in"
    /\ LET r == hierarchy_set(phTree, phPath, phValue)
       IN /\ phTree' = IF r.status = "ok" THEN r.value ELSE phTree
          /\ phSet' = r.status
    /\ phPc' = "set"
    /\ UNCHANGED <<phRoot, phPath, phValue, phGet, ethVars, kvVars, tplVars,
                   ldVars, thVars, fsVars, uiVars>>

\* hierarchy_get(root, path) on the tree the caller holds.
PathGet ==
    /\ phPc \in {"in", "set"}
    /\ phGet' = hierarchy_get(phTree, phPath)
    /\ phPc' = IF phPc = "in" THEN "got" ELSE "set_got"
    /\ UNCHANGED <<phRoot, phTree, phPath, phValue, phSet, ethVars, kvVars,
                   tplVars, ldVars, thVars, fsVars, uiVars>>

PathInit ==
    /\ kvPc = "off"
    /\ kvMap = EmptyDict
    /\ kvText = <<>>
    /\ kvOut = NoOut
    /\ reRule = "retry"
    /\ EthInit
    /\ TplOff
    /\ LoadOff
    /\ ThOff
    /\ FsOff
    /\ UiOff
    /\ phPc = "in"
    /\ phRoot \in PathRoots
    /\ phTree = phRoot
    /\ phPath \in PathInputs
    /\ phValue \in PathValues
    /\ phSet = "none"
    /\ phGet = [status |-> "none"]

PathNext == PathSet \/ PathGet

PathSpec == PathInit /\ [][PathNext]_vars

(***************************************************************************)
(* The main window controller (tinbergen.py, MainUI).  GTK runs one        *)
(* handler at a time, so each handler is one step; a handler that raises   *)
(* keeps what it did before the exception and the main loop goes on.  The  *)
(* times of the observations are all the same float, written 0.0.  The     *)
(* backups of a saved file are those of save_obslist above; here a file is *)
(* the observations last written to it, and the items of each obs line     *)
(* come in the order the dict iterates, taken when the file is read.       *)
(***************************************************************************)
MaxRows == 1

\* project.ethogram: the symbol s declares the moment behavior b1.
UiEthogram ==
    [behaviors |-> register(EmptyDict, <<"b1">>, MomentB1),
     codes |-> register(EmptyDict, <<"s">>,
                   new_code(<<"s">>, <<"b1">>, PyNone, EmptyDict, <<>>))]

\* project.video_files
UiVideoFiles == {<<"v">>}

\* The rows of the observer combo box: '' (nobody) and the observers' codes.
UiObserverItems ==
    {PyNone} \cup {Str(ProjectObservers[i].code) :
                      i \in 1..Len(ProjectObservers)}

\* What can be selected in file_nav: nothing, or one of the video files.
UiVideoItems == {PyNone} \cup {Str(f) : f \in UiVideoFiles}

\* The texts typed into the entry cell.
UiEntries == {<<>>, <<"s">>}

\* The hotkeys pressed: the names of letter and digit keys.
UiHotkeys == {<<"s">>}

\* str(row[0]) of every row.
RowTime == Str(<<"0.0">>)

can_edit_observations_always(observer, video) == TRUE

can_edit_observations(observer, video) ==
    observer # PyNone /\ video # PyNone

\* The dict parse_entry returned, as the codec sees it.
ObsOf(r) == [k \in {<<f>> : f \in DOMAIN r} |-> Str(r[k[1]])]

\* Project.load_obs_from_file: the lists it can return, or the exception of
\* parse_keyvals.  The lines save_obslist wrote have the heads observer,
\* source and obs; only the obs lines are parsed.  Every obs line is parsed
\* under each order in which its dict can have been iterated, and a list
\* takes one of the results of every line.
load_obs_from_file(videofile, observer, files) ==
    IF videofile = PyNone \/ observer = PyNone THEN {Ok(<<>>)}
    ELSE LET obsfile == get_obsfile(videofile.v, observer.v)
             OnePerLine(lines) ==
                 {p \in [DOMAIN lines -> UNION Range(lines)] :
                     \A i \in DOMAIN lines : p[i] \in lines[i]}
         IN IF obsfile \notin DOMAIN files THEN {Ok(<<>>)}
            ELSE {IF \E i \in DOMAIN p : p[i].status # "ok"
                  THEN Err("TypeError")
                  ELSE Ok([i \in DOMAIN p |-> p[i].map])
                  : p \in OnePerLine(
                        [i \in DOMAIN files[obsfile] |->
                            {parse_keyvals(tail, reRule)
                             : tail \in {str_strip(as_keyvalstr(obs, q))
                                         : obs \in {files[obsfile][i]},
                                           q \in Orders(DOMAIN
                                                    files[obsfile][i])}}])}

\* Project.save_obslist on the files of the window.
project_save_obslist(videofile, observer, obslist, files) ==
    IF observer = PyNone \/ get_observer_name(observer.v).status # "ok"
    THEN [files |-> files, raised |-> "IndexError"]
    ELSE IF videofile = PyNone
    THEN [files |-> files, raised |-> "OSError"]
    ELSE [files |-> DictSet(files, get_obsfile(videofile.v, observer.v),
                            obslist),
          raised |-> "none"]

\* save_current_obs, called while video and observer are current.  Every
\* row's dict gets its time; the flag is left as it is.
save_current_obs(video, observer, modified, rows, files) ==
    IF ~modified
    THEN [rows |-> rows, files |-> files, saved |-> NoCall, raised |-> "none"]
    ELSE LET obslist == [i \in 1..Len(rows) |->
                            DictSet(rows[i], <<"time">>, RowTime)]
             r == project_save_obslist(video, observer, obslist, files)
         IN [rows |-> obslist, files |-> r.files,
             saved |-> [op |-> "save_obslist", videofile |-> video,
                        observer |-> observer, obslist |-> obslist],
             raised |-> r.raised]

\* make_behaviors_model: float(obs.get('time', 'nan')) of a tuple raises.
make_behaviors_model(obslist) ==
    IF \E i \in 1..Len(obslist) :
           /\ <<"time">> \in DOMAIN obslist[i]
           /\ obslist[i][<<"time">>].t # "str"
    THEN Err("TypeError")
    ELSE Ok(obslist)

\* open_observations: what it leaves of the rows, the cell and the flag.
open_observations(video, observer, modified, rows, editable, files) ==
    {LET m == IF l.status = "ok" THEN make_behaviors_model(l.value) ELSE l
     IN IF m.status = "ok"
        THEN [rows |-> m.value,
              editable |-> can_edit_observations(observer, video),
              modified |-> FALSE, raised |-> "none"]
        ELSE [rows |-> rows, editable |-> editable, modified |-> modified,
              raised |-> m.status]
     : l \in load_obs_from_file(video, observer, files)}

\* What a handler records of the state it began in.
UiBegan(op) ==
    [op |-> op, video |-> uiVideo, observer |-> uiObserver,
     modified |-> uiModified, edited |-> uiEdited, saved |-> NoCall,
     raised |-> "none"]

\* The selection becomes video and observer: save, assign, open.
UiSelect(op, video, observer) ==
    LET s == save_current_obs(uiVideo, uiObserver, uiModified, uiRows,
                              uiFiles)
        began == [UiBegan(op) EXCEPT !.saved = s.saved]
    IN IF s.raised # "none"
       THEN /\ uiRows' = s.rows
            /\ uiLast' = [began EXCEPT !.raised = s.raised]
            /\ UNCHANGED <<uiObserver, uiVideo, uiModified, uiEditable,
                           uiFiles, uiEdited>>
       ELSE \E o \in open_observations(video, observer, uiModified, s.rows,
                                       uiEditable, s.files) :
                /\ uiObserver' = observer
                /\ uiVideo' = video
                /\ uiFiles' = s.files
                /\ uiRows' = o.rows
                /\ uiEditable' = o.editable
                /\ uiModified' = o.modified
                /\ uiEdited' = IF o.modified THEN uiEdited ELSE <<>>
                /\ uiLast' = [began EXCEPT !.raised = o.raised]

\* on_observer_combo_changed and set_current_observer: the combo box shows
\* new already, so it is not set again.
set_current_observer(new) ==
    /\ uiPc = "open"
    /\ new # uiObserver
    /\ LET codes_ == {ProjectObservers[i].code :
                         i \in 1..Len(ProjectObservers)}
           valid == IF new # PyNone /\ new.v \in codes_ THEN new ELSE PyNone
       IN UiSelect("set_current_observer", uiVideo, valid)
    /\ uiPc' = uiPc
    /\ UNCHANGED <<kvVars, ethVars, tplVars, ldVars, thVars, fsVars, phVars>>

\* on_select_file and set_current_video: file_nav shows new already.
set_current_video(new) ==
    /\ uiPc = "open"
    /\ new # uiVideo
    /\ LET valid == IF new # PyNone /\ new.v \in UiVideoFiles
                    THEN new ELSE PyNone
       IN UiSelect("set_current_video", valid, uiObserver)
    /\ uiPc' = uiPc
    /\ UNCHANGED <<kvVars, ethVars, tplVars, ldVars, thVars, fsVars, phVars>>

\* on_main_key_press: Tab (entry is None) or a hotkey (entry is its name).
make_new_observation(entry) ==
    /\ uiPc = "open"
    /\ can_edit_observations(uiObserver, uiVideo)
    /\ Len(uiRows) < MaxRows
    /\ IF entry = PyNone
       THEN /\ uiRows' = Append(uiRows, EmptyDict)
            /\ uiLast' = UiBegan("make_new_observation")
            /\ UNCHANGED <<uiModified, uiEdited>>
       ELSE LET r == parse_entry_result(entry.v)
            IN IF r.status # "returned"
               THEN /\ uiLast' = [UiBegan("make_new_observation")
                                    EXCEPT !.raised = r.exc]
                    /\ UNCHANGED <<uiRows, uiModified, uiEdited>>
               ELSE /\ uiRows' = Append(uiRows, ObsOf(r.value))
                    /\ uiModified' = TRUE
                    /\ uiEdited' = <<uiVideo, uiObserver>>
                    /\ uiLast' = UiBegan("make_new_observation")
    /\ UNCHANGED <<uiPc, uiObserver, uiVideo, uiEditable, uiFiles>>
    /\ UNCHANGED <<kvVars, ethVars, tplVars, ldVars, thVars, fsVars, phVars>>

\* The entry cell of the row at path was edited to new_entry.
on_edit_entry(path, new_entry) ==
    /\ uiPc = "open"
    /\ uiEditable
    /\ path \in 1..Len(uiRows)
    /\ LET r == parse_entry_result(new_entry)
       IN IF r.status # "returned"
          THEN /\ uiLast' = [UiBegan("on_edit_entry") EXCEPT !.raised = r.exc]
               /\ UNCHANGED <<uiRows, uiModified, uiEdited>>
          ELSE /\ uiRows' = [uiRows EXCEPT ![path] = ObsOf(r.value)]
               /\ uiModified' = TRUE
               /\ uiEdited' = <<uiVideo, uiObserver>>
               /\ uiLast' = UiBegan("on_edit_entry")
    /\ UNCHANGED <<uiPc, uiObserver, uiVideo, uiEditable, uiFiles>>
    /\ UNCHANGED <<kvVars, ethVars, tplVars, ldVars, thVars, fsVars, phVars>>

\* BackSpace or Delete in behavior_nav; selected is the selected row, 0
\* when no row is selected (model.remove(None) raises TypeError).
on_behavior_nav_key_press(selected) ==
    /\ uiPc = "open"
    /\ selected \in 0..Len(uiRows)
    /\ IF selected = 0
       THEN /\ uiLast' = [UiBegan("on_behavior_nav_key_press")
                            EXCEPT !.raised = "TypeError"]
            /\ UNCHANGED <<uiRows, uiModified, uiEdited>>
       ELSE /\ uiRows' = SubSeq(uiRows, 1, selected - 1)
                         \o SubSeq(uiRows, selected + 1, Len(uiRows))
            /\ uiModified' = TRUE
            /\ uiEdited' = <<uiVideo, uiObserver>>
            /\ uiLast' = UiBegan("on_behavior_nav_key_press")
    /\ UNCHANGED <<uiPc, uiObserver, uiVideo, uiEditable, uiFiles>>
    /\ UNCHANGED <<kvVars, ethVars, tplVars, ldVars, thVars, fsVars, phVars>>

\* The window was destroyed: save, then gtk.main_quit().
on_main_win_destroy ==
    /\ uiPc = "open"
    /\ LET s == save_current_obs(uiVideo, uiObserver, uiModified, uiRows,
                                 uiFiles)
       IN /\ uiRows' = s.rows
          /\ uiFiles' = s.files
          /\ uiLast' = [UiBegan("on_main_win_destroy")
                          EXCEPT !.saved = s.saved, !.raised = s.raised]
    /\ uiPc' = "closed"
    /\ UNCHANGED <<uiObserver, uiVideo, uiModified, uiEditable, uiEdited>>
    /\ UNCHANGED <<kvVars, ethVars, tplVars, ldVars, thVars, fsVars, phVars>>

\* MainUI.__init__ on a project without observation files.
UiInit ==
    /\ kvPc = "off"
    /\ kvMap = EmptyDict
    /\ kvText = <<>>
    /\ kvOut = NoOut
    /\ reRule = "retry"
    /\ TplOff
    /\ LoadOff
    /\ ThOff
    /\ FsOff
    /\ PhOff
    /\ behaviors = UiEthogram.behaviors
    /\ codes = UiEthogram.codes
    /\ declared = EmptyDict
    /\ overwrote = FALSE
    /\ call = NoCall
    /\ result = NoResult
    /\ uiPc = "open"
    /\ uiObserver = PyNone
    /\ uiVideo = PyNone
    /\ uiModified = FALSE
    /\ uiRows = <<>>
    /\ uiEditable = can_edit_observations(PyNone, PyNone)
    /\ uiFiles = EmptyDict
    /\ uiEdited = <<>>
    /\ uiLast = UiIdle

UiNext ==
    \/ \E new \in UiObserverItems : set_current_observer(new)
    \/ \E new \in UiVideoItems : set_current_video(new)
    \/ \E entry \in {PyNone} \cup {Str(k) : k \in UiHotkeys} :
           make_new_observation(entry)
    \/ \E path \in 1..MaxRows, new_entry \in UiEntries :
           on_edit_entry(path, new_entry)
    \/ \E selected \in 0..MaxRows : on_behavior_nav_key_press(selected)
    \/ on_main_win_destroy

UiSpec == UiInit /\ [][UiNext]_vars

(***************************************************************************)
(* Properties.                                                             *)
(***************************************************************************)
\* Two codec values are the same Python value.
SameValue(x, y) == x.t = y.t /\ x.v = y.v

\* C1: decoding the encoding of a mapping gives the mapping back: the same
\* keys, each value a scalar or a tuple as before, with the same strings.
C1_RoundTrip ==
    kvPc = "rt_decoded" =>
        /\ kvOut.status = "ok"
        /\ DOMAIN kvOut.map = DOMAIN kvMap
        /\ \A k \in DOMAIN kvMap : SameValue(kvOut.map[k], kvMap[k])

\* The character at position i of an unquoted token is escaped: it follows
\* a backslash that is not itself escaped.
RECURSIVE IsEscaped(_, _)
IsEscaped(tok, i) == i > 1 /\ tok[i - 1] = "\\" /\ ~IsEscaped(tok, i - 1)

UnescapedCommas(tok) == {i \in 1..Len(tok) : tok[i] = "," /\ ~IsEscaped(tok, i)}

IsQuotedToken(tok) ==
    Len(tok) >= 2 /\ tok[1] = "\"" /\ tok[Len(tok)] = "\""

\* C2: a double-quoted value token decodes to a scalar; any other token
\* decodes to a tuple exactly when it holds an unescaped comma, split at
\* the unescaped commas, and otherwise to the unescaped scalar.
C2_Disambiguation ==
    (kvPc = "raw_decoded" /\ kvOut.status = "ok") =>
        \A i \in 1..Len(kvOut.items) :
            LET tok == kvOut.items[i].tok
                val == kvOut.items[i].val
            IN IF IsQuotedToken(tok) THEN val.t = "str"
               ELSE IF UnescapedCommas(tok) # {}
               THEN /\ val.t = "tuple"
                    /\ Len(val.v) = Cardinality(UnescapedCommas(tok)) + 1
               ELSE val.t = "str" /\ val.v = strip_escapes(tok)

\* C3: decoding either fails with a parse error or returns a mapping that
\* accounts for every non-whitespace character of the text as part of a
\* key=value unit.
C3_NoSilentDrop ==
    kvPc = "raw_decoded" =>
        \/ kvOut.status = "ParseError"
        \/ /\ kvOut.status = "ok"
           /\ \A p \in 1..Len(kvText) :
                  ~IsSpace(kvText[p]) =>
                      \E i \in 1..Len(kvOut.items) :
                          /\ kvOut.items[i].start <= p
                          /\ p < kvOut.items[i].end
                          /\ kvOut.items[i].key \in DOMAIN kvOut.map

\* The first whitespace-delimited token of the entry is a registered symbol.
RegisteredSymbol(entry) ==
    str_split(entry) # <<>> /\ str_split(entry)[1] \in DOMAIN codes

\* C4: parse_entry returns a mapping for every entry string, and exactly
\* {entry: entryText} when the first token is not a registered symbol.
C4_LenientNeverFails ==
    call.op = "parse_entry" =>
        /\ result.status = "returned"
        /\ ~RegisteredSymbol(call.entry) =>
               result.value = [entry |-> call.entry]

\* The conflict list that validate is specified to return.
ClaimedConflicts(obs) ==
    IF "name" \notin DOMAIN obs \/ obs.name \notin DOMAIN behaviors
    THEN <<"name">>
    ELSE LET behavior == behaviors[obs.name]
         IN (IF "kind" \notin DOMAIN obs \/ obs.kind # behavior.kind
             THEN <<"kind">> ELSE <<>>)
            \o (IF /\ behavior.kind \in {<<"state">>, <<"binary">>}
                   /\ ("value" \notin DOMAIN obs
                       \/ obs.value \notin behavior.values)
                THEN <<"value">> ELSE <<>>)

\* C5: an observation that get_prototype returns has no conflict with the
\* ethogram: its name is registered, its kind is the behavior's, and for a
\* state or binary behavior its value is a member of the value set.
C5_StrictWellFormed ==
    (call.op = "get_prototype" /\ result.status = "returned") =>
        ClaimedConflicts(result.value) = <<>>

\* The keys a code holds besides symbol, name and args.
ExtraKeys(code) == DOMAIN code \ {"symbol", "name", "args"}

\* The bindings of the code's stored parameters to the entry's arguments.
Bindings(code, entry) ==
    ZipDict(IF "args" \in DOMAIN code THEN code.args ELSE <<>>,
            Tail(str_split(entry)))

\* C6: for a registered symbol parse_entry returns the union of the entry,
\* the behavior's name and kind, the code's extra fields and the argument
\* bindings, a key taking its value from the first of these that has it;
\* the behavior's values set is not copied.
C6_MergePriority ==
    (call.op = "parse_entry" /\ result.status = "returned"
        /\ RegisteredSymbol(call.entry)) =>
        LET code == codes[str_split(call.entry)[1]]
            behavior == behaviors[code.name]
            bound == Bindings(code, call.entry)
            obs == result.value
        IN /\ DOMAIN obs = {"entry", "name", "kind"} \cup ExtraKeys(code)
                               \cup DOMAIN bound
           /\ \A k \in DOMAIN obs :
                  obs[k] = IF k = "entry" THEN call.entry
                           ELSE IF k \in {"name", "kind"} THEN behavior[k]
                           ELSE IF k \in ExtraKeys(code) THEN code[k]
                           ELSE bound[k]
           /\ "values" \in DOMAIN obs =>
                  "values" \in ExtraKeys(code) \cup DOMAIN bound

\* C6 witness: parse_entry has returned for a code whose extra field kind
\* differs from the behavior's kind and whose parameter is also an extra
\* field or a reserved key, with an argument to bind.
C6_Witness ==
    /\ call.op = "parse_entry"
    /\ result.status = "returned"
    /\ RegisteredSymbol(call.entry)
    /\ LET code == codes[str_split(call.entry)[1]]
       IN /\ "kind" \in ExtraKeys(code)
          /\ code.kind # behaviors[code.name].kind
          /\ "values" \in DOMAIN behaviors[code.name]
          /\ DOMAIN Bindings(code, call.entry)
                 \cap ({"entry", "name", "kind"} \cup ExtraKeys(code)) # {}

\* The parameter list a code was declared with.
DeclaredParams(symbol) ==
    LET a == declared[symbol]
    IN IF a.t = "None" THEN <<>> ELSE IF a.t = "str" THEN <<a.v>> ELSE a.v

\* C7: the i-th declared parameter is bound to the i-th argument of the
\* entry, for every i up to the shorter length; later parameters get no
\* binding.  (Stated for parameters that occur once in the list and that
\* no higher-priority source of parse_entry provides.)
C7_PositionalBinding ==
    (call.op \in {"parse_entry", "get_prototype"}
        /\ result.status = "returned" /\ RegisteredSymbol(call.entry)) =>
        LET symbol == str_split(call.entry)[1]
            args == Tail(str_split(call.entry))
            params == DeclaredParams(symbol)
            others == {"entry", "name", "kind"} \cup ExtraKeys(codes[symbol])
            obs == result.value
        IN \A i \in 1..Len(params) :
               (/\ \A j \in 1..Len(params) : j # i => params[j] # params[i]
                /\ call.op = "parse_entry" => params[i] \notin others) =>
                   IF i <= Len(args)
                   THEN params[i] \in DOMAIN obs /\ obs[params[i]] = args[i]
                   ELSE params[i] \in DOMAIN obs => params[i] \in others

\* C8: when get_prototype returns an observation, parse_entry returns the
\* same observation for the same entry string.
C8_StrictLenientAgree ==
    (call.op = "get_prototype" /\ result.status = "returned") =>
        /\ parse_entry_result(call.entry).status = "returned"
        /\ parse_entry_result(call.entry).value = result.value

\* C9: validate returns the conflict list: name alone for an unregistered
\* name, otherwise kind and value as they conflict, kind first.
C9_ValidateResult ==
    call.op = "validate_obs" =>
        /\ result.status = "returned"
        /\ result.value = ClaimedConflicts(call.obs)

\* C10: add_code fails, leaving both registries as they were, when the
\* symbol contains whitespace or the name is not a registered behavior;
\* otherwise it succeeds and the code is registered under its symbol.
C10_AddCodeValidation ==
    [][call'.op = "add_code" =>
          LET bad == \/ " " \in Range(call'.symbol)
                     \/ call'.name \notin DOMAIN behaviors
          IN /\ bad => /\ result'.status = "raised"
                       /\ behaviors' = behaviors
                       /\ codes' = codes
             /\ ~bad => /\ result'.status = "returned"
                        /\ call'.symbol \in DOMAIN codes'
                        /\ codes'[call'.symbol].symbol = call'.symbol
                        /\ codes'[call'.symbol].name = call'.name]_vars

\* C10 witness: add_code has failed on a symbol without whitespace whose
\* name is not registered, while a code and a behavior are registered.
C10_Witness ==
    /\ call.op = "add_code"
    /\ result.status = "raised"
    /\ " " \notin Range(call.symbol)
    /\ call.name \notin DOMAIN behaviors
    /\ DOMAIN behaviors # {}
    /\ DOMAIN codes # {}

RecognizedKinds == {<<"moment">>, <<"state">>, <<"binary">>, <<"variable">>}

\* C11: add_behavior with a kind outside moment, state, binary, variable
\* raises and leaves the behavior registry and the code registry as they
\* were; with a kind inside the set it returns and the behavior is
\* registered under its name with that kind.
C11_AddBehaviorValidation ==
    [][call'.op = "add_behavior" =>
          IF call'.kind \in RecognizedKinds
          THEN /\ result'.status = "returned"
               /\ call'.name \in DOMAIN behaviors'
               /\ behaviors'[call'.name].name = call'.name
               /\ behaviors'[call'.name].kind = call'.kind
          ELSE /\ result'.status = "raised"
               /\ behaviors' = behaviors
               /\ codes' = codes]_vars

\* An add_behavior with an unrecognized kind has failed on an ethogram that
\* holds behaviors and codes.
C11_Witness ==
    /\ call.op = "add_behavior"
    /\ call.kind \notin RecognizedKinds
    /\ result.status = "raised"
    /\ behaviors # EmptyDict
    /\ codes # EmptyDict

\* C12: after a successful add_code whose args is a sequence of names, the
\* registered code's args is that sequence: the same names in the same
\* order, repeated names retained.
C12_StoredParameterList ==
    (call.op = "add_code" /\ result.status = "returned"
        /\ call.args.t = "tuple") =>
        /\ "args" \in DOMAIN codes[call.symbol]
        /\ codes[call.symbol].args = call.args.v

\* C13: every registered behavior has one of the four recognized kinds, a
\* binary behavior's value set is exactly {'True', 'False'} whatever values
\* were passed, and a moment or variable behavior stores no value set.
C13_ValueSetByKind ==
    \A n \in DOMAIN behaviors :
        LET b == behaviors[n]
        IN /\ b.kind \in RecognizedKinds
           /\ b.kind = <<"binary">> =>
                  /\ "values" \in DOMAIN b
                  /\ b.values = {<<"True">>, <<"False">>}
           /\ b.kind \in {<<"moment">>, <<"variable">>} =>
                  "values" \notin DOMAIN b

\* A binary behavior has been added with a list of values passed, beside a
\* moment or variable behavior that was added with values passed as well.
C13_Witness ==
    /\ call.op = "add_behavior"
    /\ call.kind = <<"binary">>
    /\ call.values = Tup(<< <<"sit">>, <<"stand">> >>)
    /\ result.status = "returned"
    /\ \E n \in DOMAIN behaviors :
           behaviors[n].kind \in {<<"moment">>, <<"variable">>}

\* C14: every registered behavior of kind state has a non-empty value set,
\* whether values was absent, an empty sequence, a single string or a list
\* of names.
C14_NonEmptyStateValues ==
    \A n \in DOMAIN behaviors :
        behaviors[n].kind = <<"state">> => behaviors[n].values # {}

\* C15: an add_behavior with a recognized kind for a name already
\* registered, or an add_code with a valid symbol already registered,
\* returns, replaces that one entry with the new definition, leaves the
\* set of registered keys as it was and leaves every other behavior entry
\* and every other code entry with its previous content.
C15_LastWriteWins ==
    [][/\ (/\ call'.op = "add_behavior"
           /\ call'.kind \in RecognizedKinds
           /\ call'.name \in DOMAIN behaviors) =>
              /\ result'.status = "returned"
              /\ DOMAIN behaviors' = DOMAIN behaviors
              /\ behaviors'[call'.name].name = call'.name
              /\ behaviors'[call'.name].kind = call'.kind
              /\ \A n \in DOMAIN behaviors \ {call'.name} :
                     behaviors'[n] = behaviors[n]
              /\ codes' = codes
       /\ (/\ call'.op = "add_code"
           /\ \A i \in 1..Len(call'.symbol) : call'.symbol[i] # " "
           /\ call'.name \in DOMAIN behaviors
           /\ call'.symbol \in DOMAIN codes) =>
              /\ result'.status = "returned"
              /\ DOMAIN codes' = DOMAIN codes
              /\ codes'[call'.symbol].symbol = call'.symbol
              /\ codes'[call'.symbol].name = call'.name
              /\ ("args" \in DOMAIN codes'[call'.symbol])
                     = (call'.args # PyNone)
              /\ \A k \in DOMAIN call'.kargs :
                     codes'[call'.symbol][k] = call'.kargs[k]
              /\ DOMAIN codes'[call'.symbol] \subseteq
                     {"symbol", "name", "args"} \cup DOMAIN call'.kargs
              /\ \A x \in DOMAIN codes \ {call'.symbol} :
                     codes'[x] = codes[x]
              /\ behaviors' = behaviors]_vars

\* A code has been registered again under its symbol while another code
\* and two behaviors are registered.
C15_Witness ==
    /\ call.op = "add_code"
    /\ overwrote
    /\ Cardinality(DOMAIN codes) = 2
    /\ Cardinality(DOMAIN behaviors) = 2

\* T with every placeholder leaf whose variable is a key of A replaced by
\* A's value, every other node as in T.
RECURSIVE Expand(_, _)
Expand(T, A) ==
    IF T.t = "str"
    THEN IF Len(T.v) >= 1 /\ T.v[1] = "=" /\ SubSeq(T.v, 2, Len(T.v)) \in DOMAIN A
         THEN A[SubSeq(T.v, 2, Len(T.v))]
         ELSE T
    ELSE IF T.t = "list"
    THEN List([i \in 1..Len(T.l) |-> Expand(T.l[i], A)])
    ELSE IF T.t = "map"
    THEN Map([k \in DOMAIN T.m |-> Expand(T.m[k], A)])
    ELSE T

\* C16: make_obs(A) equals the template with each placeholder leaf '=' + v
\* replaced by A[v] as given when v is a key of A, at every place v occurs,
\* and left as it is when v is not a key of A; keys of A that name no free
\* variable have no effect and every other node is as in the template.
C16_TemplateExpansion ==
    tplCall.op = "make_obs" => tplOut = Expand(tplOrig.data, tplCall.args)

\* make_obs has bound a list to a variable that occurs at two places of a
\* template in which another variable stays free.
C16_Witness ==
    /\ tplCall.op = "make_obs"
    /\ tplCall.args = (VarW :> List(<<Str(<<"A">>)>>))
    /\ VarW \in DOMAIN tplFreeVars
    /\ Len(tplFreeVars[VarW]) = 2
    /\ VarX \in DOMAIN tplFreeVars

\* C17: once the template is built, neither make_obs calls nor assignments
\* into a returned document or into the literal change the template
\* document or its free-variable table; make_obs({}) returns a document
\* equal to the original template, and a make_obs call returns the same
\* document as an earlier call with equal arguments.
C17_TemplateImmutable ==
    tplPc = "ready" =>
        /\ tplData = tplOrig.data
        /\ tplFreeVars = tplOrig.vars
        /\ (tplCall.op = "make_obs" /\ DOMAIN tplCall.args = {}) =>
               tplOut = tplOrig.data
        /\ (tplCall.op = "make_obs" /\ tplPrev.op = "make_obs"
               /\ tplPrev.args = tplCall.args) =>
               tplOut = tplPrev.out

\* After two make_obs calls the caller has assigned into the literal and
\* into the document returned last.
C17_Witness ==
    /\ tplPc = "ready"
    /\ tplCall.op = "mutate_out"
    /\ tplLiteral # tplOrig.data
    /\ tplOut # tplOrig.data
    /\ tplPrev.op = "make_obs"
    /\ tplFreeVars # EmptyDict

\* The mappings that bind N[i] to V[i] for the i below both lengths.
ClaimedBindings(N, V) ==
    LET n == IF Len(N) < Len(V) THEN Len(N) ELSE Len(V)
        dom == {N[i] : i \in 1..n}
    IN {B \in [dom -> {V[i] : i \in 1..n}] :
           \A k \in dom : \E i \in 1..n : N[i] = k /\ B[k] = V[i]}

\* C18: Code.make_obs(V) equals prototype.make_obs(B) where B binds the
\* parameter name N[i] to V[i] for each i below min(len(N), len(V)): names
\* beyond len(V) keep their placeholders, values beyond len(N) are ignored.
C18_CodeMaterialization ==
    tplCall.op = "Code_make_obs" =>
        \E B \in ClaimedBindings(tplNames, tplCall.values) :
            /\ tplOut = make_obs_result(tplData, tplFreeVars, B)
            /\ tplOut = Expand(tplOrig.data, B)

\* Code.make_obs has been called with one value on a Code of two distinct
\* parameter names, both free in the template.
C18_Witness ==
    /\ tplCall.op = "Code_make_obs"
    /\ tplNames = <<VarW, VarX>>
    /\ Len(tplCall.values) = 1
    /\ {VarW, VarX} \subseteq DOMAIN tplFreeVars

\* The tag of a line: the glyphs before the first ":", blanks left out.
TagOf(line) ==
    LET colons == {i \in 1..Len(line) : line[i] = ":"}
        n == IF colons = {} THEN Len(line)
             ELSE (CHOOSE i \in colons : \A j \in colons : i <= j) - 1
    IN SelectSeq(SubSeq(line, 1, n), LAMBDA g : g # " ")

\* The name a definition line gives with name=...
NameIn(line) ==
    LET at == {i \in 1..(Len(line) - 2) :
                  line[i] = "name" /\ line[i + 1] = "="}
    IN IF at = {} THEN <<>> ELSE <<line[(CHOOSE i \in at : TRUE) + 2]>>

\* A behavior line with the name of line i occurs before line i.
DeclaredEarlier(i) ==
    \E j \in 1..(i - 1) :
        /\ TagOf(ldLines[j]) = <<"behavior">>
        /\ NameIn(ldLines[j]) = NameIn(ldLines[i])

\* C19: a code line is accepted only if a behavior line with the same name
\* occurred earlier in the file; at a code line whose behavior is declared
\* only later or never the load fails, at that line, and no Ethogram is
\* returned.
C19_DeclarationOrder ==
    \A i \in 1..Len(ldLines) :
        (TagOf(ldLines[i]) = <<"code">> /\ ~DeclaredEarlier(i)) =>
            /\ ldPos < i
            /\ ldStatus # "returned"
            /\ (ldPos = i - 1 /\ ldStatus # "loading") =>
                   ldStatus \in {"CodeError", "TypeError", "ValueError"}

\* The load has failed with CodeError at a code line that follows an
\* accepted line and whose behavior is declared by a later line.
C19_Witness ==
    /\ ldStatus = "CodeError"
    /\ ldPos >= 1
    /\ ldPos + 1 < Len(ldLines)
    /\ TagOf(ldLines[ldPos + 1]) = <<"code">>
    /\ \E j \in (ldPos + 2)..Len(ldLines) :
           /\ TagOf(ldLines[j]) = <<"behavior">>
           /\ NameIn(ldLines[j]) = NameIn(ldLines[ldPos + 1])

\* A comment line, or a line whose tag is not name, behavior or code.
IsIgnoredLine(line) ==
    \/ TagOf(line) # <<>> /\ TagOf(line)[1] = "#"
    \/ TagOf(line) \notin {<<"name">>, <<"behavior">>, <<"code">>}

\* C20: processing a comment line or a line whose tag is not name,
\* behavior or code raises nothing and changes neither the ethogram's name
\* nor the behavior registry nor the code registry: the load goes on to
\* the next line with the ethogram it had.
C20_IgnoredLines ==
    [][(/\ ldStatus = "loading"
        /\ ldPos < Len(ldLines)
        /\ IsIgnoredLine(ldLines[ldPos + 1])) =>
           /\ ldStatus' = "loading"
           /\ ldPos' = ldPos + 1
           /\ ethName' = ethName
           /\ behaviors' = behaviors
           /\ codes' = codes]_vars

\* The load has passed an ignored line with a behavior registered, and
\* both a comment line and a line of another tag are behind it.
C20_Witness ==
    /\ ldStatus = "loading"
    /\ ldPos = 3
    /\ behaviors # EmptyDict
    /\ \E i \in 1..ldPos : TagOf(ldLines[i]) = <<"#", "code">>
    /\ \E i \in 1..ldPos : TagOf(ldLines[i]) = <<"note">>

\* What the call c returns or raises when it runs alone on the Ethogram.
AloneResult(c) ==
    IF c.op = "parse_entry" THEN parse_entry_result(c.entry)
    ELSE IF c.op = "get_prototype" THEN get_prototype_result(c.entry)
    ELSE Raised("TypeError")

\* C21: while threads run parse_entry, get_prototype and validate_obs in
\* any interleaving, the behavior registry and the code registry stay as
\* they were loaded, and every call that has ended, by returning or by
\* raising, has the outcome it has when it runs alone on that Ethogram.
C21_ReadOnlyPhase ==
    /\ behaviors = thLoaded.behaviors
    /\ codes = thLoaded.codes
    /\ \A t \in DOMAIN thPc :
           thPc[t] = "done" => thResult[t] = AloneResult(thCall[t])

\* Both threads are in the middle of calls on a registered symbol, one
\* having ended with a returned observation while the other still reads.
C21_Witness ==
    /\ DOMAIN thPc # {}
    /\ \E t, u \in DOMAIN thPc :
           /\ t # u
           /\ thPc[t] = "done"
           /\ thResult[t].status = "returned"
           /\ thCall[t].op = "get_prototype"
           /\ thPc[u] \in {"behavior", "validate"}
           /\ codes # EmptyDict

\* C22: after k saves for the video and the observer, the observation file
\* holds what the k-th save wrote and the files with suffix .1, ..., .(k-1)
\* hold what the 1st, ..., (k-1)-th save wrote, and no save has failed.
C22_BackupRotation ==
    fsStatus \notin {"off", "ready"} =>
        LET k == Len(fsSaved)
            obsfile == get_obsfile(fsVideo, fsObserver)
        IN /\ fsStatus = "returned"
           /\ obsfile \in DOMAIN fsFiles
           /\ fsFiles[obsfile] = fsSaved[k]
           /\ \A i \in 1..(k - 1) :
                  LET backup == obsfile \o <<".">> \o str_of_int(i)
                  IN backup \in DOMAIN fsFiles /\ fsFiles[backup] = fsSaved[i]

\* The positions of s that hold the character c unescaped.
UnescapedAt(s, c) == {i \in 1..Len(s) : s[i] = c /\ ~IsEscaped(s, i)}

\* The pieces of s between the positions in cuts, in order.
Pieces(s, cuts) ==
    LET n == Cardinality(cuts)
        pos(i) == IF i = 0 THEN 0
                  ELSE IF i = n + 1 THEN Len(s) + 1
                  ELSE CHOOSE p \in cuts :
                           Cardinality({q \in cuts : q < p}) = i - 1
    IN [i \in 1..(n + 1) |-> SubSeq(s, pos(i - 1) + 1, pos(i) - 1)]

\* p is x with a backslash before every character of specials and before
\* no other character.
EscapedForm(p, x, specials) ==
    /\ strip_escapes(p) = x
    /\ \A i \in 1..Len(p) :
           /\ p[i] \in specials =>
                  IsEscaped(p, i) \/ (p[i] = "\\" /\ i < Len(p))
           /\ IsEscaped(p, i) => p[i] \in specials

\* The value part of a unit is the written form of the value val.
ValueForm(part, val) ==
    IF val.t = "tuple"
    THEN IF val.v = <<>> THEN part = <<>>
         ELSE LET elems == Pieces(part, UnescapedAt(part, ","))
              IN /\ Len(elems) = Len(val.v)
                 /\ \A i \in 1..Len(elems) :
                        EscapedForm(elems[i], val.v[i], {" ", ",", "\\"})
    ELSE /\ UnescapedAt(part, ",") = {}
         /\ EscapedForm(part, val.v, {" ", ",", "\\"})

\* C23: the text as_keyvalstr gives for a mapping has one unit per entry,
\* the units separated by single unescaped spaces; a unit is the key with
\* every space, '=' and backslash behind a backslash, then '=', then the
\* value: the elements of a tuple joined by unescaped commas, or the
\* scalar, with every space, comma and backslash behind a backslash.
C23_EncodeLayout ==
    kvPc = "encoded" =>
        LET units == Pieces(kvText, UnescapedAt(kvText, " "))
        IN /\ Len(units) = Cardinality(DOMAIN kvMap)
           /\ \A k \in DOMAIN kvMap :
                  \E i \in 1..Len(units) :
                      LET eqs == UnescapedAt(units[i], "=")
                      IN /\ eqs # {}
                         /\ LET e == CHOOSE p \in eqs : \A q \in eqs : p <= q
                            IN /\ EscapedForm(SubSeq(units[i], 1, e - 1), k,
                                              {" ", "=", "\\"})
                               /\ ValueForm(SubSeq(units[i], e + 1,
                                                   Len(units[i])), kvMap[k])

\* A mapping of two entries has been encoded, one of its values a scalar
\* with a comma in it.
C23_Witness ==
    /\ kvPc = "encoded"
    /\ Cardinality(DOMAIN kvMap) = 2
    /\ \E k \in DOMAIN kvMap :
           kvMap[k].t = "str" /\ "," \in Range(kvMap[k].v)

\* C24: every registered code has a symbol without whitespace and the name
\* of a registered behavior, and parse_entry and get_prototype called
\* with a registered symbol find that behavior.
C24_ReferentialIntegrity ==
    \A s \in DOMAIN codes :
        /\ codes[s].symbol = s
        /\ " " \notin Range(s)
        /\ codes[s].name \in DOMAIN behaviors
        /\ parse_entry_result(s).status = "returned"
        /\ "name" \in DOMAIN parse_entry_result(s).value
        /\ parse_entry_result(s).value.name = codes[s].name
        /\ get_prototype_result(s) \notin
               {Raised("KeyError"), Raised("IndexError")}

\* The paths from node to the nodes of its tree: itself, the values of its
\* mappings and the elements of its lists, mapping keys not among them.
RECURSIVE NodePaths(_)
NodePaths(node) ==
    {<<>>} \cup UNION {{<<c>> \o p : p \in NodePaths(get_item(node, c).value)} :
                          c \in ChildKeys(node)}

\* The places of the document D that hold the string '=' followed by v.
PlacesOf(D, v) ==
    {p \in NodePaths(D) : hierarchy_get(D, p).value = Str(<<"=">> \o v)}

\* C25: in the table built from the document D, the paths recorded for a
\* variable v are exactly the places of D that hold the string '=' + v,
\* each place once, and each resolves inside the template; a string that
\* starts with '=' has its variable in the table, and nothing else has.
C25_FreeVarTable ==
    tplPc = "ready" =>
        /\ \A v \in DOMAIN tplFreeVars :
               /\ PlacesOf(tplOrig.data, v) # {}
               /\ Range(tplFreeVars[v]) = PlacesOf(tplOrig.data, v)
               /\ Len(tplFreeVars[v]) = Cardinality(PlacesOf(tplOrig.data, v))
               /\ \A i \in 1..Len(tplFreeVars[v]) :
                      hierarchy_get(tplData, tplFreeVars[v][i]).status = "ok"
        /\ \A p \in NodePaths(tplOrig.data) :
               LET node == hierarchy_get(tplOrig.data, p).value
               IN (node.t = "str" /\ node.v # <<>> /\ node.v[1] = "=") =>
                      Tail(node.v) \in DOMAIN tplFreeVars

\* The template holds one variable at two places of a list and a string
\* without the sigil.
C25_Witness ==
    /\ tplPc = "ready"
    /\ tplCall.op = "construct"
    /\ VarW \in DOMAIN tplFreeVars
    /\ Len(tplFreeVars[VarW]) = 2
    /\ tplFreeVars[VarW][1] # tplFreeVars[VarW][2]
    /\ Len(tplFreeVars[VarW][2]) = 2
    /\ \E p \in NodePaths(tplOrig.data) :
           hierarchy_get(tplOrig.data, p).value = Str(<<"a">>)

\* The node has an item at the segment.
HasItem(node, seg) ==
    IF node.t = "map" THEN seg \in DOMAIN node.m
    ELSE IF node.t = "list"
    THEN IsIdx(seg) /\ 0 - Len(node.l) <= seg.idx /\ seg.idx < Len(node.l)
    ELSE IF node.t = "str"
    THEN IsIdx(seg) /\ 0 - Len(node.v) <= seg.idx /\ seg.idx < Len(node.v)
    ELSE FALSE

\* Every segment of the path exists, each in the node the ones before it
\* lead to.
RECURSIVE AllPresent(_, _)
AllPresent(root, path) ==
    path = <<>> \/ (/\ HasItem(root, path[1])
                    /\ AllPresent(get_item(root, path[1]).value, Tail(path)))

Front(path) == SubSeq(path, 1, Len(path) - 1)

\* The path with every index counted from the start of its list.
RECURSIVE Canonical(_, _)
Canonical(root, path) ==
    IF path = <<>> THEN <<>>
    ELSE <<IF root.t = "list" /\ path[1].idx < 0
           THEN Idx(Len(root.l) + path[1].idx) ELSE path[1]>>
         \o Canonical(get_item(root, path[1]).value, Tail(path))

IsPrefix(p, q) == Len(p) <= Len(q) /\ SubSeq(q, 1, Len(p)) = p

\* After a hierarchy_set at the path the tree holds the value there and
\* every node that is not at, below or above the path is as before; the
\* nodes above have the items they had and the one assigned.
SetEffect ==
    LET p == Canonical(phRoot, Front(phPath))
        parent == hierarchy_get(phRoot, Front(phPath)).value
        last == Canonical(parent, <<phPath[Len(phPath)]>>)
    IN /\ phSet = "ok"
       /\ phGet = Ok(phValue)
       /\ {q \in NodePaths(phRoot) : ~IsPrefix(p \o last, q)}
              \subseteq NodePaths(phTree)
       /\ \A q \in NodePaths(phRoot) :
              (~IsPrefix(p \o last, q) /\ ~IsPrefix(q, p \o last)) =>
                  hierarchy_get(phTree, q) = hierarchy_get(phRoot, q)
       /\ \A q \in NodePaths(phRoot) :
              IsPrefix(q, p) =>
                  ChildKeys(hierarchy_get(phTree, q).value) =
                      ChildKeys(hierarchy_get(phRoot, q).value)
                      \cup (IF q = p THEN Range(last) ELSE {})

\* C26 as stated: for a non-empty path whose every segment but the last
\* exists, after hierarchy_set(root, p, v) the call hierarchy_get(root, p)
\* returns v and every node that is not at or below p is unchanged.
C26_SetGet ==
    (/\ phPc = "set_got"
     /\ phPath # <<>>
     /\ AllPresent(phRoot, Front(phPath))) => SetEffect

\* The node takes an assignment at the segment: a mapping at any key, a
\* list at an index it has.
Assignable(node, seg) ==
    node.t = "map" \/ (node.t = "list" /\ HasItem(node, seg))

\* C26 amended: for a non-empty path whose every segment but the last
\* exists and leads to a mapping, or to a list that has the last segment
\* as an index, after hierarchy_set(root, p, v) the call
\* hierarchy_get(root, p) returns v and every node that is not at or below
\* p is unchanged.
C26_SetGetAssignable ==
    (/\ phPc = "set_got"
     /\ phPath # <<>>
     /\ AllPresent(phRoot, Front(phPath))
     /\ Assignable(hierarchy_get(phRoot, Front(phPath)).value,
                   phPath[Len(phPath)])) => SetEffect

\* A value has been set below the root, at a key its mapping did not have
\* or at the last index of a list, and read back.
C26_Witness ==
    /\ phPc = "set_got"
    /\ Len(phPath) = 2
    /\ AllPresent(phRoot, Front(phPath))
    /\ Assignable(hierarchy_get(phRoot, Front(phPath)).value, phPath[2])
    /\ \/ ~HasItem(hierarchy_get(phRoot, Front(phPath)).value, phPath[2])
       \/ phPath[2] = Idx(-1)
    /\ phGet = Ok(phValue)

\* C27: hierarchy_get raises when a key or index along the path is absent;
\* hierarchy_set raises when the path is empty or a segment before the
\* last is absent; after a call that raised, the tree is as it was.
C27_PathErrors ==
    /\ (phPc = "got" /\ ~AllPresent(phRoot, phPath)) => phGet.status # "ok"
    /\ (phPc = "got" /\ phGet.status # "ok") => phTree = phRoot
    /\ (phPc = "set"
        /\ (phPath = <<>> \/ ~AllPresent(phRoot, Front(phPath)))) =>
           phSet # "ok"
    /\ (phPc = "set" /\ phSet # "ok") => phTree = phRoot

\* hierarchy_set has raised KeyError for a path of two segments whose first
\* is no key of the root mapping.
C27_Witness ==
    /\ phPc = "set"
    /\ Len(phPath) = 2
    /\ phRoot.t = "map"
    /\ ~HasItem(phRoot, phPath[1])
    /\ phSet = "KeyError"
    /\ phTree = phRoot

\* C28: a state behavior registered with a single string v as its values
\* has the value set {v}; validate then reports no conflict for an
\* observation of that behavior with value v, and the conflict 'value' for
\* one with any other value.
C28_SingleValueSet ==
    /\ (/\ call.op = "add_behavior"
        /\ result.status = "returned"
        /\ call.kind = <<"state">>
        /\ call.values.t = "str") =>
           behaviors[call.name].values = {call.values.v}
    /\ (/\ call.op = "validate_obs"
        /\ DOMAIN call.obs = {"name", "kind", "value"}
        /\ call.obs.name \in DOMAIN behaviors
        /\ call.obs.kind = <<"state">>
        /\ behaviors[call.obs.name].kind = <<"state">>
        /\ Cardinality(behaviors[call.obs.name].values) = 1) =>
           /\ result.status = "returned"
           /\ result.value = IF call.obs.value
                                 \in behaviors[call.obs.name].values
                             THEN <<>> ELSE <<"value">>

\* C29: edits are saved before the selection changes.  When a handler that
\* changes the current observer or the current video, or the handler of the
\* window's destruction, begins with current_modified true, it calls
\* save_obslist with the video and the observer it began with, which are the
\* video and the observer that were current when the edits were made; and
\* after a change of the selection current_modified is false.
C29_SavedBeforeSelectionChanges ==
    (/\ uiLast.op \in {"set_current_observer", "set_current_video",
                       "on_main_win_destroy"}
     /\ uiLast.modified)
    => /\ uiLast.saved # NoCall
       /\ uiLast.saved.videofile = uiLast.video
       /\ uiLast.saved.observer = uiLast.observer
       /\ <<uiLast.saved.videofile, uiLast.saved.observer>> = uiLast.edited
       /\ (/\ uiLast.op # "on_main_win_destroy"
           /\ <<uiVideo, uiObserver>> # <<uiLast.video, uiLast.observer>>)
          => ~uiModified

\* C30: modified implies editable.  While the window is open,
\* current_modified is true only when both the current observer and the
\* current video are set, and the last handler did not call save_obslist
\* with a missing observer or a missing video.
C30_ModifiedImpliesEditable ==
    uiPc = "open"
    => /\ uiModified => can_edit_observations(uiObserver, uiVideo)
       /\ uiLast.saved # NoCall
          => /\ uiLast.saved.observer # PyNone
             /\ uiLast.saved.videofile # PyNone

\* Edits were made and then nobody was selected as the observer: the edits
\* were saved for the observer and the video they were made for, and the
\* rows can no longer be edited.
C30_Witness ==
    /\ uiLast.op = "set_current_observer"
    /\ uiLast.modified
    /\ uiLast.saved # NoCall
    /\ uiObserver = PyNone
    /\ uiVideo # PyNone
    /\ ~uiModified

=============================================================================
